---- MODULE Spec2Model ----
(***************************************************************************)
(* A model of the grammatica C library (src/c/src/grammar): grammar nodes  *)
(* (String, CharRange, DerivationRule, Grammar = sequence, Or = choice),   *)
(* their construction, reference counting, structural equality,            *)
(* simplification and rendering.                                           *)
(*                                                                         *)
(* Pure operations are operators over node values; the actions apply them  *)
(* to inputs drawn from bounded sets.  Reference counting is modelled on   *)
(* an explicit heap.                                                       *)
(***************************************************************************)
EXTENDS Integers, Sequences, FiniteSets, TLC

VARIABLES
    arg,      \* the arguments of the call under examination
    ret,      \* what the call returned
    pc,       \* which call has been made so far
    heap,     \* node id -> node cell (reference-counted objects)
    arrays,   \* array id -> GrammaticaGrammarArray owned by the caller
    handles   \* node id -> number of references the caller holds

vars == <<arg, ret, pc, heap, arrays, handles>>

(***************************************************************************)
(* Bounds of the model.                                                    *)
(***************************************************************************)
MaxRanges == 3      \* entries handed to grammaticaCharRangeCreate
MaxKids == 2        \* subexprs of a generically generated group
MaxRun == 4         \* subexprs of a generated sequence of literals and ranges
MaxWordLen == 2     \* length of the words a tree's language is compared on
MaxObjects == 3     \* nodes ever allocated on the heap
MaxArrays == 2      \* arrays the caller ever creates
MaxItems == 2       \* items of a caller's array
MaxHandles == 2     \* references the caller holds on one node
MaxText == 2        \* characters of a StringLiteral whose escaping is rendered

(***************************************************************************)
(* uint32_t values.  A value is kept as two 16-bit halves so that the full *)
(* 32-bit width, and the wrap-around of + 1 at UINT32_MAX, stay exact.     *)
(***************************************************************************)
Half == 2 ^ 16

U32(h, l) == [hi |-> h, lo |-> l]

Small(n) == U32(0, n)

UINT32_MAX == U32(Half - 1, Half - 1)

Lt32(a, b) == a.hi < b.hi \/ (a.hi = b.hi /\ a.lo < b.lo)

Le32(a, b) == a = b \/ Lt32(a, b)

\* a + 1 in uint32_t arithmetic
Inc32(a) ==
    IF a.lo < Half - 1 THEN U32(a.hi, a.lo + 1)
    ELSE IF a.hi < Half - 1 THEN U32(a.hi + 1, 0)
    ELSE U32(0, 0)

\* a - 1 in uint32_t arithmetic
Dec32(a) ==
    IF a.lo > 0 THEN U32(a.hi, a.lo - 1)
    ELSE IF a.hi > 0 THEN U32(a.hi - 1, Half - 1)
    ELSE UINT32_MAX

\* (char)v read back as a byte: the low 8 bits
CharCast(v) == v.lo % 256

(***************************************************************************)
(* Character codes used by the sources' literals.                          *)
(***************************************************************************)
ASCII ==
    [nul |-> 0, tab |-> 9, lf |-> 10, cr |-> 13, space |-> 32, quote |-> 34,
     lparen |-> 40, rparen |-> 41, star |-> 42, plus |-> 43, comma |-> 44,
     minus |-> 45, zero |-> 48, colon |-> 58, equals |-> 61, question |-> 63,
     A |-> 65, X |-> 88, lbracket |-> 91, backslash |-> 92, rbracket |-> 93,
     caret |-> 94, underscore |-> 95, backtick |-> 96, a |-> 97, b |-> 98, c |-> 99,
     n |-> 110, r |-> 114, s |-> 115, t |-> 116, x |-> 120, z |-> 122,
     lbrace |-> 123, bar |-> 124, rbrace |-> 125, tilde |-> 126,
     bang |-> 33, hash |-> 35, slash |-> 47, nine |-> 57, at |-> 64, Z |-> 90]

(***************************************************************************)
(* Node values.  NULL is the null pointer / "empty" result.                *)
(***************************************************************************)
NULL == [type |-> "NULL"]

\* the process died (abort, segmentation fault) inside the call
CRASH == [type |-> "CRASH"]

Quantifier(mn, mx) == [min |-> mn, max |-> mx]

DefaultQ == Quantifier(1, 1)

IsDefaultQ(q) == q.min = 1 /\ q.max = 1

GrammaticaString(v) == [type |-> "STRING", value |-> v]

GrammaticaCharRange(rs, neg) == [type |-> "CHAR_RANGE", ranges |-> rs, negate |-> neg]

GrammaticaDerivationRule(sym, v) == [type |-> "DERIVATION_RULE", symbol |-> sym, value |-> v]

GrammaticaGroupedGrammar(ty, ks, q) == [type |-> ty, subexprs |-> ks, quantifier |-> q]

IsGrouped(n) == n.type \in {"GRAMMAR", "OR"}

Entry(s, e) == [start |-> s, end |-> e]

(***************************************************************************)
(* Sequence helpers.                                                       *)
(***************************************************************************)
SeqsUpTo(S, n) == UNION {[1..k -> S] : k \in 0..n}

SeqsFromTo(S, m, n) == UNION {[1..k -> S] : k \in m..n}

Perms(n) == {p \in [1..n -> 1..n] : \A i, j \in 1..n : i # j => p[i] # p[j]}

(***************************************************************************)
(* Strings (src/c/src/grammar/string.c).  A C string is the bytes before   *)
(* the first NUL.                                                          *)
(***************************************************************************)
RECURSIVE CString(_)
CString(bytes) ==
    IF bytes = <<>> \/ Head(bytes) = ASCII.nul THEN <<>>
    ELSE <<Head(bytes)>> \o CString(Tail(bytes))

\* strdup(value) into a fresh node
grammaticaStringCreate(value) == GrammaticaString(CString(value))

(***************************************************************************)
(* Character-range engine (src/c/src/grammar/char_range.c).                *)
(***************************************************************************)
compare_range_entries(ra, rb) ==
    IF Lt32(ra.start, rb.start) THEN -1
    ELSE IF Lt32(rb.start, ra.start) THEN 1
    ELSE 0

\* Every array qsort may leave behind: a permutation of the input in which
\* no entry precedes one that compares smaller (ties in any order).
QsortOutcomes(ranges) ==
    LET n == Len(ranges)
        arr(p) == [i \in 1..n |-> ranges[p[i]]]
    IN {arr(p) : p \in {q \in Perms(n) :
            \A i, j \in 1..n : i < j => compare_range_entries(ranges[q[i]], ranges[q[j]]) <= 0}}

\* One outcome of qsort; the only one when no two entries share a start.
Qsort(ranges) == CHOOSE s \in QsortOutcomes(ranges) : TRUE

\* The sweep of merge_ranges over the sorted array: write_pos w, read_pos r
\* (1-based here).
RECURSIVE MergeSweep(_, _, _)
MergeSweep(rs, w, r) ==
    IF r > Len(rs) THEN SubSeq(rs, 1, w)
    ELSE IF Le32(rs[r].start, Inc32(rs[w].end))
         THEN IF Lt32(rs[w].end, rs[r].end)
              THEN MergeSweep([rs EXCEPT ![w].end = rs[r].end], w, r + 1)
              ELSE MergeSweep(rs, w, r + 1)
         ELSE IF w + 1 # r
              THEN MergeSweep([rs EXCEPT ![w + 1] = rs[r]], w + 1, r + 1)
              ELSE MergeSweep(rs, w + 1, r + 1)

\* merge_ranges, given what qsort made of the array
merge_ranges(sorted) ==
    IF Len(sorted) <= 1 THEN sorted ELSE MergeSweep(sorted, 1, 2)

\* grammaticaCharRangeCreate without the validation loop
grammaticaCharRangeCreateUnvalidated(ranges, negate, sorted) ==
    IF Len(ranges) = 0 THEN NULL
    ELSE GrammaticaCharRange(merge_ranges(sorted), negate)

\* grammaticaCharRangeCreate(ranges, rangeCount, negate); `sorted` is the
\* array as qsort leaves it inside merge_ranges.
grammaticaCharRangeCreate(ranges, negate, sorted) ==
    IF Len(ranges) = 0 THEN NULL
    ELSE IF \E i \in 1..Len(ranges) : Lt32(ranges[i].end, ranges[i].start) THEN NULL
    ELSE GrammaticaCharRange(merge_ranges(sorted), negate)

\* char_range_simplify of the vtable implementation
char_range_simplify(n) ==
    IF Len(n.ranges) = 0 THEN NULL
    ELSE IF Len(n.ranges) = 1 /\ n.ranges[1].start = n.ranges[1].end /\ ~n.negate
         THEN grammaticaStringCreate(<<CharCast(n.ranges[1].start), ASCII.nul>>)
         ELSE grammaticaCharRangeCreate(n.ranges, n.negate, Qsort(n.ranges))

\* grammatica_char_range_simplify of the context-handle implementation
\* (src/c/src/char_range.c), whose entries are chars
grammatica_char_range_simplify(n) ==
    IF Len(n.ranges) = 0 THEN NULL
    ELSE IF Len(n.ranges) = 1 /\ n.ranges[1].start = n.ranges[1].end
         THEN grammaticaStringCreate(<<CharCast(n.ranges[1].start), ASCII.nul>>)
         ELSE GrammaticaCharRange(n.ranges, n.negate)

char_range_equals(g1, g2) ==
    /\ g1.negate = g2.negate
    /\ Len(g1.ranges) = Len(g2.ranges)
    /\ \A i \in 1..Len(g1.ranges) :
          /\ g1.ranges[i].start = g2.ranges[i].start
          /\ g1.ranges[i].end = g2.ranges[i].end

(***************************************************************************)
(* Quantifiers (src/c/src/grammar/base.c).  max = 0 means unbounded.       *)
(***************************************************************************)
\* grammaticaValidateQuantifier without the min > max test
grammaticaValidateQuantifierMaxOnly(q) == ~(q.max # 0 /\ q.max < 1)

\* TRUE iff grammaticaValidateQuantifier returns GRAMMATICA_OK; the first
\* test of the source (max != 0 && max < 1) is never true of a uint32_t.
grammaticaValidateQuantifier(q) ==
    ~(q.max # 0 /\ q.max < 1) /\ ~(q.max # 0 /\ q.min > q.max)

grammaticaGrammarCreate(subexprs, q) ==
    IF ~grammaticaValidateQuantifier(q) THEN NULL
    ELSE GrammaticaGroupedGrammar("GRAMMAR", subexprs, q)

grammaticaOrCreate(subexprs, q) ==
    IF ~grammaticaValidateQuantifier(q) THEN NULL
    ELSE GrammaticaGroupedGrammar("OR", subexprs, q)

grammaticaDerivationRuleCreate(symbol, value) ==
    IF value = NULL THEN NULL ELSE GrammaticaDerivationRule(symbol, value)

(***************************************************************************)
(* Structural equality.  `same` says that the two arguments are the same   *)
(* pointer; the nodes a parent holds are compared as distinct instances.   *)
(***************************************************************************)
RECURSIVE grammaticaGrammarEquals(_, _, _, _)

string_equals(g1, g2) == g1.value = g2.value

derivation_rule_equals(g1, g2, check_quantifier) ==
    /\ g1.symbol = g2.symbol
    /\ grammaticaGrammarEquals(g1.value, g2.value, check_quantifier, FALSE)

\* the children are compared with quantifiers whatever the flag says
grouped_equals_children_checked(g1, g2, check_quantifier) ==
    /\ check_quantifier => g1.quantifier = g2.quantifier
    /\ Len(g1.subexprs) = Len(g2.subexprs)
    /\ \A i \in 1..Len(g1.subexprs) :
          grammaticaGrammarEquals(g1.subexprs[i], g2.subexprs[i], TRUE, FALSE)

grouped_equals_common(g1, g2, check_quantifier) ==
    /\ check_quantifier =>
          (g1.quantifier.min = g2.quantifier.min /\ g1.quantifier.max = g2.quantifier.max)
    /\ Len(g1.subexprs) = Len(g2.subexprs)
    /\ \A i \in 1..Len(g1.subexprs) :
          grammaticaGrammarEquals(g1.subexprs[i], g2.subexprs[i], check_quantifier, FALSE)

grammaticaGrammarEquals(grammar, other, check_quantifier, same) ==
    IF same THEN TRUE
    ELSE IF grammar = NULL \/ other = NULL THEN FALSE
    ELSE IF grammar.type # other.type THEN FALSE
    ELSE CASE grammar.type = "STRING" -> string_equals(grammar, other)
           [] grammar.type = "CHAR_RANGE" -> char_range_equals(grammar, other)
           [] grammar.type = "DERIVATION_RULE" ->
                 derivation_rule_equals(grammar, other, check_quantifier)
           [] OTHER -> grouped_equals_common(grammar, other, check_quantifier)

(***************************************************************************)
(* grammaticaMergeAdjacentStrings (src/c/src/grammar/string.c), run on the *)
(* scratch array of grammar_simplify.  Every slot holds the one reference  *)
(* to its object; obj is the slot the object came from (0 for a merged     *)
(* string made here).  unrefs counts the grammaticaGrammarUnref calls per  *)
(* object.                                                                 *)
(***************************************************************************)
Cell(k, n) == [obj |-> k, node |-> n]

RECURSIVE ConcatValues(_, _, _)
ConcatValues(items, from, to) ==
    IF from > to THEN <<>>
    ELSE items[from].node.value \o ConcatValues(items, from + 1, to)

\* last slot of the run of strings that starts at slot r
RECURSIVE RunEnd(_, _)
RunEnd(items, r) ==
    IF r < Len(items) /\ items[r + 1].node.type = "STRING"
    THEN RunEnd(items, r + 1) ELSE r

Unref1(unrefs, cell) ==
    IF cell.obj = 0 THEN unrefs ELSE [unrefs EXCEPT ![cell.obj] = @ + 1]

\* the inner while loop: slots r..e are released, except slot w
RECURSIVE UnrefRun(_, _, _, _, _)
UnrefRun(unrefs, items, p, e, w) ==
    IF p > e THEN unrefs
    ELSE UnrefRun(IF p # w THEN Unref1(unrefs, items[p]) ELSE unrefs, items, p + 1, e, w)

\* the outer while loop: write_pos w, read_pos r (1-based here)
RECURSIVE MergeLoop(_, _, _, _)
MergeLoop(items, w, r, unrefs) ==
    IF r > Len(items) THEN [items |-> SubSeq(items, 1, w - 1), unrefs |-> unrefs]
    ELSE IF items[r].node.type = "STRING"
         THEN LET e == RunEnd(items, r)
                  merged == Cell(0, grammaticaStringCreate(ConcatValues(items, r, e)))
                  released == Unref1(UnrefRun(unrefs, items, r, e, w), items[w])
              IN MergeLoop([items EXCEPT ![w] = merged], w + 1, e + 1, released)
         ELSE MergeLoop(IF w # r THEN [items EXCEPT ![w] = items[r]] ELSE items,
                        w + 1, r + 1, unrefs)

\* grammaticaMergeAdjacentStrings over the node values `nodes`
grammaticaMergeAdjacentStrings(nodes) ==
    LET items == [i \in 1..Len(nodes) |-> Cell(i, nodes[i])]
        none == [i \in 1..Len(nodes) |-> 0]
    IN IF Len(nodes) < 2 THEN [items |-> items, unrefs |-> none]
       ELSE MergeLoop(items, 1, 1, none)

\* Objects released more often than the array held them: an object still
\* in the array must not be released at all, one merged away exactly once.
OverReleased(m) ==
    {k \in DOMAIN m.unrefs :
        m.unrefs[k] > (IF \E i \in 1..Len(m.items) : m.items[i].obj = k THEN 0 ELSE 1)}

RECURSIVE NodesFrom(_, _)
NodesFrom(items, i) ==
    IF i > Len(items) THEN <<>> ELSE <<items[i].node>> \o NodesFrom(items, i + 1)

NodesOf(items) == NodesFrom(items, 1)

(***************************************************************************)
(* Simplification (src/c/src/grammar).  A release of an object the array   *)
(* no longer owns is undefined behaviour (a double free, or a use after    *)
(* free of a node the result still points to); ub names what the build     *)
(* makes of it: "stale" - the freed memory still reads as the node it      *)
(* held, "crash" - the process dies in the call.                           *)
(***************************************************************************)
UBOutcomes == {"stale", "crash"}

RECURSIVE grammaticaGrammarSimplify(_, _)

string_simplify(g) ==
    IF g.value = <<>> THEN NULL ELSE grammaticaStringCreate(g.value)

derivation_rule_simplify(g, ub) ==
    LET simplified_value == grammaticaGrammarSimplify(g.value, ub)
    IN IF simplified_value = NULL THEN NULL
       ELSE IF simplified_value = CRASH THEN CRASH
       ELSE grammaticaDerivationRuleCreate(g.symbol, simplified_value)

\* the simplified subexprs that are not NULL, in order
RECURSIVE SimplifiedArray(_, _, _)
SimplifiedArray(subexprs, i, ub) ==
    IF i > Len(subexprs) THEN <<>>
    ELSE LET simplified == grammaticaGrammarSimplify(subexprs[i], ub)
         IN (IF simplified = NULL THEN <<>> ELSE <<simplified>>)
                \o SimplifiedArray(subexprs, i + 1, ub)

Crashed(array) == \E i \in 1..Len(array) : array[i] = CRASH

\* grammar_simplify without the single-child return of grammar.c:262-265
grammar_simplify_always_wraps(g, ub) ==
    LET simplified_array == SimplifiedArray(g.subexprs, 1, ub)
        merged == grammaticaMergeAdjacentStrings(simplified_array)
        items == NodesOf(merged.items)
    IN IF Crashed(simplified_array) THEN CRASH
       ELSE IF Len(simplified_array) = 0 THEN NULL
       ELSE IF OverReleased(merged) # {} /\ ub = "crash" THEN CRASH
       ELSE grammaticaGrammarCreate(items, g.quantifier)

grammar_simplify(g, ub) ==
    LET simplified_array == SimplifiedArray(g.subexprs, 1, ub)
        merged == grammaticaMergeAdjacentStrings(simplified_array)
        items == NodesOf(merged.items)
    IN IF Crashed(simplified_array) THEN CRASH
       ELSE IF Len(simplified_array) = 0 THEN NULL
       ELSE IF OverReleased(merged) # {} /\ ub = "crash" THEN CRASH
       ELSE IF Len(items) = 1 /\ g.quantifier.min = 1 /\ g.quantifier.max = 1
            THEN items[1]
            ELSE grammaticaGrammarCreate(items, g.quantifier)

\* the loop of or_simplify comparing a child with the last kept one only
RECURSIVE OrSimplifiedArrayAdjacent(_, _, _, _)
OrSimplifiedArrayAdjacent(subexprs, i, kept, ub) ==
    IF i > Len(subexprs) THEN kept
    ELSE LET simplified == grammaticaGrammarSimplify(subexprs[i], ub)
             duplicate == /\ kept # <<>>
                          /\ grammaticaGrammarEquals(simplified, kept[Len(kept)], TRUE, FALSE)
         IN IF simplified = CRASH THEN <<CRASH>>
            ELSE IF simplified # NULL /\ ~duplicate
                 THEN OrSimplifiedArrayAdjacent(subexprs, i + 1, Append(kept, simplified), ub)
                 ELSE OrSimplifiedArrayAdjacent(subexprs, i + 1, kept, ub)

\* the loop of or_simplify: `kept` is simplified_array so far
RECURSIVE OrSimplifiedArray(_, _, _, _)
OrSimplifiedArray(subexprs, i, kept, ub) ==
    IF i > Len(subexprs) THEN kept
    ELSE LET simplified == grammaticaGrammarSimplify(subexprs[i], ub)
             duplicate == \E j \in 1..Len(kept) :
                              grammaticaGrammarEquals(simplified, kept[j], TRUE, FALSE)
         IN IF simplified = CRASH THEN <<CRASH>>
            ELSE IF simplified # NULL /\ ~duplicate
                 THEN OrSimplifiedArray(subexprs, i + 1, Append(kept, simplified), ub)
                 ELSE OrSimplifiedArray(subexprs, i + 1, kept, ub)

\* or_simplify without the return of NULL for an emptied array
or_simplify_keeps_empty(g, ub) ==
    LET simplified_array == OrSimplifiedArray(g.subexprs, 1, <<>>, ub)
    IN IF Crashed(simplified_array) THEN CRASH
       ELSE IF Len(simplified_array) = 1 /\ g.quantifier.min = 1 /\ g.quantifier.max = 1
            THEN simplified_array[1]
            ELSE grammaticaOrCreate(simplified_array, g.quantifier)

or_simplify(g, ub) ==
    LET simplified_array == OrSimplifiedArray(g.subexprs, 1, <<>>, ub)
    IN IF Crashed(simplified_array) THEN CRASH
       ELSE IF Len(simplified_array) = 0 THEN NULL
       ELSE IF Len(simplified_array) = 1 /\ g.quantifier.min = 1 /\ g.quantifier.max = 1
            THEN simplified_array[1]
            ELSE grammaticaOrCreate(simplified_array, g.quantifier)

grammaticaGrammarSimplify(grammar, ub) ==
    IF grammar = NULL THEN NULL
    ELSE CASE grammar.type = "STRING" -> string_simplify(grammar)
           [] grammar.type = "CHAR_RANGE" -> char_range_simplify(grammar)
           [] grammar.type = "DERIVATION_RULE" -> derivation_rule_simplify(grammar, ub)
           [] grammar.type = "GRAMMAR" -> grammar_simplify(grammar, ub)
           [] grammar.type = "OR" -> or_simplify(grammar, ub)

(***************************************************************************)
(* Rendering.  A rendered text is the sequence of its bytes; NOTEXT is the *)
(* null pointer the render functions return for "nothing to render", which *)
(* no text equals as no byte is negative.                                  *)
(***************************************************************************)
NOTEXT == <<-1>>

\* The four predicates of include/grammatica/constants.h; the escape of
\* grammaticaGetCharEscape is empty when the function returns false.
PUNCTUATION ==
    {ASCII.bang} \cup (ASCII.hash..ASCII.slash) \cup (ASCII.colon..ASCII.at)
        \cup {ASCII.lbracket, ASCII.rbracket, ASCII.caret, ASCII.underscore, ASCII.backtick}
        \cup (ASCII.lbrace..ASCII.tilde)

grammaticaIsAlwaysSafeChar(ch) ==
    /\ ch.hi = 0
    /\ \/ ch.lo \in ASCII.zero..ASCII.nine
       \/ ch.lo \in ASCII.a..ASCII.z
       \/ ch.lo \in ASCII.A..ASCII.Z
       \/ ch.lo \in PUNCTUATION
       \/ ch.lo = ASCII.space

grammaticaGetCharEscape(ch) ==
    IF ch = Small(ASCII.lf) THEN <<ASCII.backslash, ASCII.n>>
    ELSE IF ch = Small(ASCII.cr) THEN <<ASCII.backslash, ASCII.r>>
    ELSE IF ch = Small(ASCII.tab) THEN <<ASCII.backslash, ASCII.t>>
    ELSE <<>>

grammaticaIsStringLiteralEscapeChar(ch) ==
    ch \in {Small(ASCII.quote), Small(ASCII.backslash)}

grammaticaIsRangeEscapeChar(ch) ==
    ch \in {Small(ASCII.caret), Small(ASCII.minus), Small(ASCII.lbracket),
            Small(ASCII.rbracket), Small(ASCII.backslash)}

\* printf's %X and %u
HexDigit(d) == IF d < 10 THEN ASCII.zero + d ELSE ASCII.A + (d - 10)

RECURSIVE HexOf(_)
HexOf(n) == IF n < 16 THEN <<HexDigit(n)>> ELSE Append(HexOf(n \div 16), HexDigit(n % 16))

RECURSIVE PadLeft(_, _)
PadLeft(digits, width) ==
    IF Len(digits) >= width THEN digits ELSE PadLeft(<<ASCII.zero>> \o digits, width)

RECURSIVE DecimalOf(_)
DecimalOf(n) ==
    IF n < 10 THEN <<ASCII.zero + n>>
    ELSE Append(DecimalOf(n \div 10), ASCII.zero + (n % 10))

\* "\\x%X": no padding
Grammatica_ordToHexUnpadded(ordinal) ==
    <<ASCII.backslash, ASCII.x>> \o
        (IF ordinal.hi = 0 THEN HexOf(ordinal.lo)
         ELSE HexOf(ordinal.hi) \o PadLeft(HexOf(ordinal.lo), 4))

\* "\\x%02X"
Grammatica_ordToHex(ordinal) ==
    <<ASCII.backslash, ASCII.x>> \o
        (IF ordinal.hi = 0 THEN PadLeft(HexOf(ordinal.lo), 2)
         ELSE HexOf(ordinal.hi) \o PadLeft(HexOf(ordinal.lo), 4))

Grammatica_charToHex(ch) == Grammatica_ordToHex(ch)

\* one character of string_render's loop
StringChar(ch) ==
    IF grammaticaIsAlwaysSafeChar(ch) THEN <<CharCast(ch)>>
    ELSE IF grammaticaGetCharEscape(ch) # <<>> THEN grammaticaGetCharEscape(ch)
    ELSE IF grammaticaIsStringLiteralEscapeChar(ch) THEN <<ASCII.backslash, CharCast(ch)>>
    ELSE Grammatica_charToHex(ch)

RECURSIVE StringChars(_, _)
StringChars(value, i) ==
    IF i > Len(value) THEN <<>> ELSE StringChar(Small(value[i])) \o StringChars(value, i + 1)

string_render(grammar) ==
    IF grammar.value = <<>> THEN NOTEXT
    ELSE <<ASCII.quote>> \o StringChars(grammar.value, 1) \o <<ASCII.quote>>

\* escape_char_for_range with the always-safe test first
escape_char_for_range_safe_first(ch) ==
    IF grammaticaIsAlwaysSafeChar(ch) THEN <<CharCast(ch)>>
    ELSE IF grammaticaIsRangeEscapeChar(ch) THEN <<ASCII.backslash, CharCast(ch)>>
    ELSE IF grammaticaGetCharEscape(ch) # <<>> THEN grammaticaGetCharEscape(ch)
    ELSE Grammatica_charToHex(ch)

escape_char_for_range(ch) ==
    IF grammaticaIsRangeEscapeChar(ch) THEN <<ASCII.backslash, CharCast(ch)>>
    ELSE IF grammaticaIsAlwaysSafeChar(ch) THEN <<CharCast(ch)>>
    ELSE IF grammaticaGetCharEscape(ch) # <<>> THEN grammaticaGetCharEscape(ch)
    ELSE Grammatica_charToHex(ch)

RECURSIVE RangeEntries(_, _)
RangeEntries(ranges, i) ==
    IF i > Len(ranges) THEN <<>>
    ELSE LET start == ranges[i].start
             end == ranges[i].end
             entry == IF start = end THEN escape_char_for_range(start)
                      ELSE IF end = Inc32(start)
                           THEN escape_char_for_range(start) \o escape_char_for_range(end)
                           ELSE escape_char_for_range(start) \o <<ASCII.minus>>
                                    \o escape_char_for_range(end)
         IN entry \o RangeEntries(ranges, i + 1)

char_range_render(grammar) ==
    IF Len(grammar.ranges) = 0 THEN NOTEXT
    ELSE <<ASCII.lbracket>> \o (IF grammar.negate THEN <<ASCII.caret>> ELSE <<>>)
             \o RangeEntries(grammar.ranges, 1) \o <<ASCII.rbracket>>

\* grammaticaRenderQuantifier without the three one-character patterns
grammaticaRenderQuantifierBracesOnly(quantifier) ==
    LET min == quantifier.min
        max == quantifier.max
    IN IF min = 1 /\ max = 1 THEN NOTEXT
       ELSE IF min = max THEN <<ASCII.lbrace>> \o DecimalOf(min) \o <<ASCII.rbrace>>
       ELSE IF max = 0 THEN <<ASCII.lbrace>> \o DecimalOf(min) \o <<ASCII.comma, ASCII.rbrace>>
       ELSE <<ASCII.lbrace>> \o DecimalOf(min) \o <<ASCII.comma>> \o DecimalOf(max)
                \o <<ASCII.rbrace>>

grammaticaRenderQuantifier(quantifier) ==
    LET min == quantifier.min
        max == quantifier.max
    IN IF min = 1 /\ max = 1 THEN NOTEXT
       ELSE IF min = 0 /\ max = 0 THEN <<ASCII.star>>
       ELSE IF min = 0 /\ max = 1 THEN <<ASCII.question>>
       ELSE IF min = 1 /\ max = 0 THEN <<ASCII.plus>>
       ELSE IF min = max THEN <<ASCII.lbrace>> \o DecimalOf(min) \o <<ASCII.rbrace>>
       ELSE IF max = 0 THEN <<ASCII.lbrace>> \o DecimalOf(min) \o <<ASCII.comma, ASCII.rbrace>>
       ELSE <<ASCII.lbrace>> \o DecimalOf(min) \o <<ASCII.comma>> \o DecimalOf(max)
                \o <<ASCII.rbrace>>

needs_wrapped_grammar(grammar) ==
    IF Len(grammar.subexprs) < 1 THEN FALSE
    ELSE IF Len(grammar.subexprs) = 1
            /\ (IsDefaultQ(grammar.quantifier) \/ ~IsGrouped(grammar.subexprs[1]))
         THEN FALSE
         ELSE grammar.quantifier.min # 1 \/ grammar.quantifier.max # 1

\* needs_wrapped_or answering as needs_wrapped_grammar does
needs_wrapped_or_as_grammar(grammar) == needs_wrapped_grammar(grammar)

needs_wrapped_or(grammar) ==
    IF Len(grammar.subexprs) < 1 THEN FALSE
    ELSE IF Len(grammar.subexprs) = 1
            /\ (IsDefaultQ(grammar.quantifier) \/ ~IsGrouped(grammar.subexprs[1]))
         THEN FALSE
         ELSE TRUE

RECURSIVE grammaticaGrammarRender(_, _, _)

\* derivation_rule_render that renders the value without the caller's wrap
derivation_rule_render_unwrapped(grammar, full, wrap) ==
    IF ~full THEN grammar.symbol
    ELSE LET rendered_value == grammaticaGrammarRender(grammar.value, FALSE, FALSE)
         IN IF rendered_value = NOTEXT THEN NOTEXT
            ELSE grammar.symbol
                     \o <<ASCII.space, ASCII.colon, ASCII.colon, ASCII.equals, ASCII.space>>
                     \o rendered_value

derivation_rule_render(grammar, full, wrap) ==
    IF ~full THEN grammar.symbol
    ELSE LET rendered_value == grammaticaGrammarRender(grammar.value, FALSE, wrap)
         IN IF rendered_value = NOTEXT THEN NOTEXT
            ELSE grammar.symbol
                     \o <<ASCII.space, ASCII.colon, ASCII.colon, ASCII.equals, ASCII.space>>
                     \o rendered_value

\* RenderedSubexprs that appends the separator for an empty rendering too
RECURSIVE RenderedSubexprsUnskipped(_, _, _, _)
RenderedSubexprsUnskipped(subexprs, i, separator, sb) ==
    IF i > Len(subexprs) THEN sb
    ELSE LET rendered == grammaticaGrammarRender(subexprs[i], FALSE, TRUE)
             text == IF rendered = NOTEXT THEN <<>> ELSE rendered
         IN IF sb = NOTEXT
            THEN RenderedSubexprsUnskipped(subexprs, i + 1, separator, text)
            ELSE RenderedSubexprsUnskipped(subexprs, i + 1, separator,
                                           sb \o separator \o text)

\* the loop of grouped_render_common: the text built so far, NOTEXT while
\* nothing has been found
RECURSIVE RenderedSubexprs(_, _, _, _)
RenderedSubexprs(subexprs, i, separator, sb) ==
    IF i > Len(subexprs) THEN sb
    ELSE LET rendered == grammaticaGrammarRender(subexprs[i], FALSE, TRUE)
         IN IF rendered = NOTEXT THEN RenderedSubexprs(subexprs, i + 1, separator, sb)
            ELSE IF sb = NOTEXT THEN RenderedSubexprs(subexprs, i + 1, separator, rendered)
            ELSE RenderedSubexprs(subexprs, i + 1, separator, sb \o separator \o rendered)

grouped_render_common(grammar, full, wrap, separator, is_or) ==
    IF Len(grammar.subexprs) < 1 THEN NOTEXT
    ELSE LET needs_wrap == IF is_or THEN needs_wrapped_or(grammar)
                           ELSE needs_wrapped_grammar(grammar)
             rendered_quantifier == grammaticaRenderQuantifier(grammar.quantifier)
             expr == RenderedSubexprs(grammar.subexprs, 1, separator, NOTEXT)
             wrapped == IF needs_wrap /\ (wrap \/ rendered_quantifier # NOTEXT)
                        THEN <<ASCII.lparen>> \o expr \o <<ASCII.rparen>>
                        ELSE expr
         IN IF expr = NOTEXT THEN NOTEXT
            ELSE IF rendered_quantifier # NOTEXT THEN wrapped \o rendered_quantifier
            ELSE wrapped

grammar_render(grammar, full, wrap) ==
    grouped_render_common(grammar, full, wrap, <<ASCII.space>>, FALSE)

or_render(grammar, full, wrap) ==
    grouped_render_common(grammar, full, wrap, <<ASCII.space, ASCII.bar, ASCII.space>>, TRUE)

grammaticaGrammarRender(grammar, full, wrap) ==
    IF grammar = NULL THEN NOTEXT
    ELSE CASE grammar.type = "STRING" -> string_render(grammar)
           [] grammar.type = "CHAR_RANGE" -> char_range_render(grammar)
           [] grammar.type = "DERIVATION_RULE" -> derivation_rule_render(grammar, full, wrap)
           [] grammar.type = "GRAMMAR" -> grammar_render(grammar, full, wrap)
           [] grammar.type = "OR" -> or_render(grammar, full, wrap)

(***************************************************************************)
(* Initial values of the variables a specification does not use.           *)
(***************************************************************************)
NoHeap == /\ heap = <<>>
          /\ arrays = <<>>
          /\ handles = <<>>

(***************************************************************************)
(* The trees the specifications start from: every one is built by the      *)
(* constructors from already built subtrees.                               *)
(***************************************************************************)
Str(v) == grammaticaStringCreate(v \o <<ASCII.nul>>)

Range1(s, e, neg) ==
    grammaticaCharRangeCreate(<<Entry(Small(s), Small(e))>>, neg, <<Entry(Small(s), Small(e))>>)

Strings == {Str(<<>>), Str(<<ASCII.a>>), Str(<<ASCII.b>>)}

RangeLeaves ==
    {Range1(ASCII.a, ASCII.a, FALSE), Range1(ASCII.a, ASCII.a, TRUE),
     Range1(ASCII.x, ASCII.z, FALSE), Range1(ASCII.nul, ASCII.nul, FALSE),
     Range1(256 + ASCII.A, 256 + ASCII.A, FALSE)}

Leaves == Strings \cup RangeLeaves

LeavesCore == {Str(<<>>), Str(<<ASCII.a>>), Range1(ASCII.x, ASCII.z, FALSE)}

RunLeaves == {Str(<<ASCII.a>>), Range1(ASCII.x, ASCII.z, FALSE)}

GroupTypes == {"GRAMMAR", "OR"}

Quants == {Quantifier(1, 1), Quantifier(0, 1), Quantifier(0, 0)}

QuantsCore == {Quantifier(1, 1), Quantifier(0, 1)}

Create(ty, kids, q) ==
    IF ty = "OR" THEN grammaticaOrCreate(kids, q) ELSE grammaticaGrammarCreate(kids, q)

Groups(quants, kidseqs) ==
    {Create(ty, ks, q) : ty \in GroupTypes, q \in quants, ks \in kidseqs}

Level1 == Groups(Quants, SeqsUpTo(Leaves, MaxKids))

\* one or two subexprs taken from S
Short(S) == {<<u>> : u \in S} \cup {<<u, v>> : u \in S, v \in S}

Level1Core == Groups(QuantsCore, Short(LeavesCore))

Runs == Groups(QuantsCore, SeqsFromTo(RunLeaves, 3, MaxRun))

Rules == {grammaticaDerivationRuleCreate(<<ASCII.r>>, v) : v \in Leaves \cup Level1Core}

Level2 == Groups(Quants, Short(LeavesCore \cup Level1Core))
              \cup Groups(Quants, {<<w>> : w \in Runs})

Chains == Groups({DefaultQ}, {<<t>> : t \in {u \in Level2 : Len(u.subexprs) = 1}})

Trees == Leaves \cup Level1 \cup Runs \cup Rules \cup Level2 \cup Chains

(***************************************************************************)
(* SpecSimplify: grammaticaGrammarSimplify applied to a tree, and then to  *)
(* its own result.                                                         *)
(***************************************************************************)
InitSimplify ==
    /\ arg \in [x : Trees]
    /\ ret = [first |-> NULL, second |-> NULL]
    /\ pc = "start"
    /\ NoHeap

Simplify ==
    /\ pc = "start"
    /\ \E ub \in UBOutcomes :
          ret' = [ret EXCEPT !.first = grammaticaGrammarSimplify(arg.x, ub)]
    /\ pc' = "simplified"
    /\ UNCHANGED <<arg, heap, arrays, handles>>

SimplifyAgain ==
    /\ pc = "simplified"
    /\ ret.first # NULL /\ ret.first # CRASH
    /\ \E ub \in UBOutcomes :
          ret' = [ret EXCEPT !.second = grammaticaGrammarSimplify(ret.first, ub)]
    /\ pc' = "resimplified"
    /\ UNCHANGED <<arg, heap, arrays, handles>>

NextSimplify == Simplify \/ SimplifyAgain

SpecSimplify == InitSimplify /\ [][NextSimplify]_vars

(***************************************************************************)
(* SpecRange: construction and simplification of one CharRange.            *)
(***************************************************************************)
Points == {Small(0), Small(1), Small(3), UINT32_MAX}

WidePoints == {Small(ASCII.a), Small(256), Small(256 + ASCII.A)}

RangeInputs ==
    SeqsUpTo({Entry(s, e) : s \in Points, e \in Points}, MaxRanges)
        \cup {<<Entry(p, p)>> : p \in WidePoints}
        \cup {<<Entry(p, Inc32(p))>> : p \in WidePoints}

InitRange ==
    /\ arg \in [ranges : RangeInputs, negate : BOOLEAN]
    /\ ret = [node |-> NULL, simplified |-> NULL, legacy |-> NULL]
    /\ pc = "start"
    /\ NoHeap

CharRangeCreate ==
    /\ pc = "start"
    /\ \E sorted \in QsortOutcomes(arg.ranges) :
          ret' = [ret EXCEPT !.node = grammaticaCharRangeCreate(arg.ranges, arg.negate, sorted)]
    /\ pc' = "created"
    /\ UNCHANGED <<arg, heap, arrays, handles>>

CharRangeSimplify ==
    /\ pc = "created"
    /\ ret.node # NULL
    /\ ret' = [ret EXCEPT !.simplified = char_range_simplify(ret.node),
                          !.legacy = grammatica_char_range_simplify(ret.node)]
    /\ pc' = "simplified"
    /\ UNCHANGED <<arg, heap, arrays, handles>>

NextRange == CharRangeCreate \/ CharRangeSimplify

SpecRange == InitRange /\ [][NextRange]_vars

\* The characters an entry list covers, probed at the end points and their
\* neighbours (entries only ever carry end points of the input).
Covers(ranges, ch) ==
    \E i \in 1..Len(ranges) : Le32(ranges[i].start, ch) /\ Le32(ch, ranges[i].end)

Probes == LET P == Points \cup WidePoints
          IN P \cup {Inc32(p) : p \in P} \cup {Dec32(p) : p \in P}

\* canonical: ascending, every entry in order, prev.end + 1 < next.start
Canonical(ranges) ==
    /\ \A i \in 1..Len(ranges) : Le32(ranges[i].start, ranges[i].end)
    /\ \A i \in 1..(Len(ranges) - 1) :
          /\ Lt32(ranges[i].start, ranges[i + 1].start)
          /\ Lt32(ranges[i].end, ranges[i + 1].start)
          /\ Inc32(ranges[i].end) # ranges[i + 1].start

Permuted(ranges) ==
    {[i \in 1..Len(ranges) |-> ranges[p[i]]] : p \in Perms(Len(ranges))}

\* C3 (as claimed): every accepted input is stored canonically, covering
\* exactly the input's characters; permutations of the input give the same
\* list, and re-creating from the stored list returns it unchanged.
C3_StoredListCanonical ==
    (pc = "created" /\ ret.node # NULL) =>
        /\ Canonical(ret.node.ranges)
        /\ \A ch \in Probes : Covers(ret.node.ranges, ch) <=> Covers(arg.ranges, ch)
        /\ \A q \in Permuted(arg.ranges) : \A s \in QsortOutcomes(q) :
              grammaticaCharRangeCreate(q, arg.negate, s) = ret.node
        /\ \A s \in QsortOutcomes(ret.node.ranges) :
              grammaticaCharRangeCreate(ret.node.ranges, arg.negate, s) = ret.node

EndsBelowMax(ranges) == \A i \in 1..Len(ranges) : ranges[i].end # UINT32_MAX

\* C3 for inputs in which no entry ends at UINT32_MAX: the stored list is
\* canonical, covers the input, and is the same for every permutation.

C3_CanonicalBelowMax ==
    (pc = "created" /\ ret.node # NULL /\ EndsBelowMax(arg.ranges)) =>
        /\ Canonical(ret.node.ranges)
        /\ \A ch \in Probes : Covers(ret.node.ranges, ch) <=> Covers(arg.ranges, ch)
        /\ \A q \in Permuted(arg.ranges) : \A s \in QsortOutcomes(q) :
              grammaticaCharRangeCreate(q, arg.negate, s) = ret.node
        /\ \A s \in QsortOutcomes(ret.node.ranges) :
              grammaticaCharRangeCreate(ret.node.ranges, arg.negate, s) = ret.node

SingleChar(n) == Len(n.ranges) = 1 /\ n.ranges[1].start = n.ranges[1].end

C9_Collapse(node, simplified) ==
    IF SingleChar(node) /\ ~node.negate
    THEN /\ simplified.type = "STRING"
         /\ Len(simplified.value) = 1
         /\ Small(simplified.value[1]) = node.ranges[1].start
    ELSE /\ simplified.type = "CHAR_RANGE"
         /\ char_range_equals(simplified, node)

\* C9 (as claimed), vtable implementation: simplifying a CharRange gives a
\* StringLiteral exactly for one non-negated single-character entry, its
\* text being that character; otherwise a CharRange equal to the original.
C9_CharRangeSimplify ==
    pc = "simplified" => C9_Collapse(ret.node, ret.simplified)

\* C9 (as claimed), context-handle implementation: the same collapse by
\* grammatica_char_range_simplify.
C9_LegacyCharRangeSimplify ==
    pc = "simplified" => C9_Collapse(ret.node, ret.legacy)

(***************************************************************************)
(* The strings a tree generates, up to MaxWordLen symbols: a StringLiteral *)
(* is its text, a CharRange one character of the class, a Sequence the     *)
(* concatenation and a Choice the alternation of its subexprs, repeated    *)
(* as the quantifier says.                                                 *)
(***************************************************************************)
Alphabet ==
    {Small(ASCII.nul), Small(ASCII.A), Small(ASCII.a), Small(ASCII.b), Small(ASCII.c),
     Small(ASCII.x), Small(ASCII.z), Small(256 + ASCII.A)}

Cat(A, B) == {u \o v : u \in A, v \in B} \cap SeqsUpTo(Alphabet, MaxWordLen)

RECURSIVE Power(_, _)
Power(B, n) == IF n = 0 THEN {<<>>} ELSE Cat(B, Power(B, n - 1))

Max(a, b) == IF a > b THEN a ELSE b

Repeat(B, q) ==
    LET top == IF q.max = 0 THEN Max(q.min, MaxWordLen) ELSE q.max
    IN UNION {Power(B, n) : n \in q.min..top}

RECURSIVE Words(_)

RECURSIVE CatAll(_, _)
CatAll(subexprs, i) ==
    IF i > Len(subexprs) THEN {<<>>} ELSE Cat(Words(subexprs[i]), CatAll(subexprs, i + 1))

Words(t) ==
    CASE t.type = "STRING" ->
             {[i \in 1..Len(t.value) |-> Small(t.value[i])]} \cap SeqsUpTo(Alphabet, MaxWordLen)
      [] t.type = "CHAR_RANGE" -> {<<ch>> : ch \in {a \in Alphabet : Covers(t.ranges, a) # t.negate}}
      [] t.type = "DERIVATION_RULE" -> Words(t.value)
      [] t.type = "GRAMMAR" -> Repeat(CatAll(t.subexprs, 1), t.quantifier)
      [] t.type = "OR" ->
             Repeat(UNION {Words(t.subexprs[i]) : i \in 1..Len(t.subexprs)}, t.quantifier)

\* C1 (as claimed): a non-empty result of Simplify generates exactly the
\* strings of its argument, and Simplify returns empty only for an argument
\* that generates nothing but the empty string.
C1_SimplifyPreservesMeaning ==
    (pc = "simplified" /\ ret.first # CRASH) =>
        IF ret.first = NULL THEN Words(arg.x) \subseteq {<<>>}
        ELSE Words(ret.first) = Words(arg.x)

\* C2 (as claimed): Simplify(Simplify(x)) is non-empty and structurally
\* equal, quantifiers included, to a non-empty Simplify(x).
C2_SimplifyIdempotent ==
    pc = "resimplified" =>
        /\ ret.second # NULL
        /\ grammaticaGrammarEquals(ret.second, ret.first, TRUE, FALSE)

\* The simplified subexprs that are not empty, in stored order.
Survivors(x) == SimplifiedArray(x.subexprs, 1, "stale")

\* The first occurrence of every distinct element, in order.
FirstOccurrences(S) ==
    LET keep == {i \in 1..Len(S) : \A j \in 1..(i - 1) : S[j] # S[i]}
        RECURSIVE Pick(_)
        Pick(i) == IF i > Len(S) THEN <<>>
                   ELSE (IF i \in keep THEN <<S[i]>> ELSE <<>>) \o Pick(i + 1)
    IN Pick(1)

\* C6: the children of a simplified Choice are the first occurrences of the
\* distinct non-empty simplified children, in their original order, and no
\* two of them are structurally equal with quantifiers compared.
C6_ChoiceDedup ==
    (pc = "simplified" /\ arg.x.type = "OR" /\ ret.first # CRASH) =>
        LET kept == FirstOccurrences(Survivors(arg.x))
        IN /\ kept = <<>> => ret.first = NULL
           /\ (Len(kept) = 1 /\ IsDefaultQ(arg.x.quantifier)) => ret.first = kept[1]
           /\ (Len(kept) > 1 \/ (Len(kept) = 1 /\ ~IsDefaultQ(arg.x.quantifier))) =>
                 /\ ret.first.type = "OR"
                 /\ ret.first.subexprs = kept
                 /\ \A i, j \in 1..Len(ret.first.subexprs) : i # j =>
                       ~grammaticaGrammarEquals(ret.first.subexprs[i],
                                                ret.first.subexprs[j], TRUE, FALSE)

\* a later duplicate was dropped and two distinct children were kept in order
C6_Witness ==
    /\ pc = "simplified" /\ arg.x.type = "OR"
    /\ Len(arg.x.subexprs) = 3
    /\ arg.x.subexprs[1] = arg.x.subexprs[3]
    /\ ret.first.type = "OR"
    /\ Len(ret.first.subexprs) = 2
    /\ ret.first.subexprs[1] # ret.first.subexprs[2]

\* Every maximal run of adjacent StringLiterals replaced by one literal.
RECURSIVE RunsMerged(_)
RunsMerged(S) ==
    IF Len(S) < 2 THEN S
    ELSE IF S[1].type = "STRING" /\ S[2].type = "STRING"
         THEN RunsMerged(<<GrammaticaString(S[1].value \o S[2].value)>> \o Tail(Tail(S)))
         ELSE <<S[1]>> \o RunsMerged(Tail(S))

\* C7 (as claimed): simplifying a Sequence merges every maximal run of
\* adjacent StringLiteral children into one, keeps every other child in
\* place, and unwraps a default-quantified Sequence left with one child.
C7_SequenceMergesLiterals ==
    (pc = "simplified" /\ arg.x.type = "GRAMMAR" /\ ~Crashed(Survivors(arg.x))) =>
        LET merged == RunsMerged(Survivors(arg.x))
        IN IF merged = <<>> THEN ret.first = NULL
           ELSE IF Len(merged) = 1 /\ IsDefaultQ(arg.x.quantifier) THEN ret.first = merged[1]
           ELSE /\ ret.first = GrammaticaGroupedGrammar("GRAMMAR", merged, arg.x.quantifier)
                /\ \A i \in 1..(Len(ret.first.subexprs) - 1) :
                      ~(ret.first.subexprs[i].type = "STRING"
                            /\ ret.first.subexprs[i + 1].type = "STRING")

\* the surviving children of a group: for a Choice, the distinct ones
Surviving(x) ==
    IF x.type = "OR" THEN FirstOccurrences(Survivors(x)) ELSE Survivors(x)

RECURSIVE Innermost(_)
Innermost(t) ==
    IF IsGrouped(t) /\ IsDefaultQ(t.quantifier) /\ Len(t.subexprs) = 1
    THEN Innermost(t.subexprs[1]) ELSE t

\* C8: a default-quantified group left with exactly one surviving child
\* simplifies to that simplified child, at every depth: a chain of
\* default-quantified single-child groups gives what its innermost node gives.
C8_UnwrapSingleChild ==
    (pc = "simplified" /\ IsGrouped(arg.x) /\ IsDefaultQ(arg.x.quantifier)
        /\ ret.first # CRASH) =>
        /\ Len(Surviving(arg.x)) = 1 => ret.first = Head(Surviving(arg.x))
        /\ ret.first = grammaticaGrammarSimplify(Innermost(arg.x), "stale")

\* a chain three groups deep was unwrapped down to a CharRange
C8_Witness ==
    /\ pc = "simplified"
    /\ arg.x \in Chains
    /\ Innermost(arg.x).type = "CHAR_RANGE"
    /\ arg.x.subexprs[1].subexprs[1] # Innermost(arg.x)
    /\ ret.first.type = "CHAR_RANGE"

(***************************************************************************)
(* SpecEquals: grammaticaGrammarEquals on two handles; `same` says the two *)
(* handles are one pointer.                                                *)
(***************************************************************************)
EqLeaves ==
    {Str(<<>>), Str(<<ASCII.a>>), Str(<<ASCII.b>>), Range1(ASCII.a, ASCII.a, FALSE),
     Range1(ASCII.a, ASCII.a, TRUE), Range1(ASCII.x, ASCII.z, FALSE)}

EqInner == Groups(QuantsCore, SeqsFromTo(RunLeaves, 1, MaxKids))

EqOuter == Groups(QuantsCore, {<<t>> : t \in {u \in EqInner : Len(u.subexprs) = 1}})

EqRules ==
    {grammaticaDerivationRuleCreate(sym, v) :
        sym \in {<<ASCII.r>>, <<ASCII.s>>},
        v \in {Str(<<ASCII.a>>)} \cup {u \in EqInner : u.type = "OR" /\ Len(u.subexprs) = 1}}

EqTrees == EqLeaves \cup EqInner \cup EqOuter \cup EqRules

\* the arguments are node pointers, the null pointer among them; two null
\* pointers are the same pointer
EqPointers == EqTrees \cup {NULL}

InitEquals ==
    /\ arg \in {c \in [a : EqPointers, b : EqPointers, check_quantifier : BOOLEAN,
                        same : BOOLEAN] :
                  /\ c.same => c.a = c.b
                  /\ (c.a = NULL /\ c.b = NULL) => c.same}
    /\ ret = NULL
    /\ pc = "start"
    /\ NoHeap

Equals ==
    /\ pc = "start"
    /\ ret' = grammaticaGrammarEquals(arg.a, arg.b, arg.check_quantifier, arg.same)
    /\ pc' = "compared"
    /\ UNCHANGED <<arg, heap, arrays, handles>>

NextEquals == Equals

SpecEquals == InitEquals /\ [][NextEquals]_vars

\* the tree with every quantifier replaced by {1,1}
RECURSIVE EraseQuantifiers(_)
EraseQuantifiers(t) ==
    CASE IsGrouped(t) ->
             [t EXCEPT !.quantifier = DefaultQ,
                       !.subexprs = [i \in 1..Len(t.subexprs) |->
                                        EraseQuantifiers(t.subexprs[i])]]
      [] t.type = "DERIVATION_RULE" -> [t EXCEPT !.value = EraseQuantifiers(t.value)]
      [] OTHER -> t

\* C10: on two non-null nodes grammaticaGrammarEquals is true exactly when
\* variant and payloads agree recursively, quantifiers counting at every
\* level when check_quantifier is set and at no level when it is not;
\* distinct instances with identical content are equal.
C10_StructuralEquality ==
    (pc = "compared" /\ arg.a # NULL /\ arg.b # NULL) =>
        (ret <=> IF arg.check_quantifier THEN arg.a = arg.b
                 ELSE EraseQuantifiers(arg.a) = EraseQuantifiers(arg.b))

\* two distinct instances differing only in a nested quantifier, compared
\* without quantifiers, came out equal
C10_Witness ==
    /\ pc = "compared"
    /\ ~arg.same /\ ~arg.check_quantifier
    /\ IsGrouped(arg.a) /\ IsGrouped(arg.b)
    /\ IsGrouped(arg.a.subexprs[1]) /\ IsGrouped(arg.b.subexprs[1])
    /\ arg.a.subexprs[1].quantifier # arg.b.subexprs[1].quantifier
    /\ ret = TRUE

(***************************************************************************)
(* SpecRender: grammaticaGrammarRender on a tree.                          *)
(***************************************************************************)
RenderQuants ==
    {Quantifier(1, 1), Quantifier(0, 1), Quantifier(0, 0), Quantifier(1, 0),
     Quantifier(2, 2), Quantifier(2, 0), Quantifier(2, 3)}

RenderLeaves ==
    {Str(<<>>), Str(<<ASCII.a>>), Str(<<ASCII.quote, ASCII.lf>>),
     Range1(ASCII.x, ASCII.z, FALSE), Range1(ASCII.caret, ASCII.caret, TRUE),
     Range1(ASCII.nul, 1, FALSE)}

RenderKids ==
    {Str(<<>>), Str(<<ASCII.a>>), Range1(ASCII.x, ASCII.z, FALSE),
     Create("OR", <<Str(<<ASCII.a>>), Str(<<ASCII.b>>)>>, DefaultQ),
     Create("GRAMMAR", <<Str(<<ASCII.a>>), Str(<<ASCII.b>>)>>, Quantifier(0, 1)),
     Create("GRAMMAR", <<Str(<<ASCII.a>>)>>, DefaultQ),
     grammaticaDerivationRuleCreate(<<ASCII.r>>, Str(<<ASCII.a>>))}

RenderRuleValues ==
    Groups({DefaultQ, Quantifier(0, 1)}, {<<Str(<<ASCII.a>>), Str(<<ASCII.b>>)>>})
        \cup {Str(<<>>), Str(<<ASCII.a>>), Range1(ASCII.x, ASCII.z, FALSE),
               Create("GRAMMAR", <<Str(<<>>)>>, DefaultQ),
               grammaticaDerivationRuleCreate(<<ASCII.s>>, Str(<<ASCII.a>>)),
               grammaticaDerivationRuleCreate(<<ASCII.s>>, Str(<<>>))}

RenderRules ==
    {grammaticaDerivationRuleCreate(symbol, v) :
        symbol \in {<<ASCII.r>>, <<ASCII.r, ASCII.underscore, ASCII.zero + 1>>},
        v \in RenderRuleValues}

\* the characters of every class of the escaping rules
EscapeBytes ==
    {1, ASCII.tab, ASCII.lf, ASCII.cr, ASCII.space, ASCII.bang, ASCII.quote, ASCII.minus,
     ASCII.zero, ASCII.A, ASCII.lbracket, ASCII.backslash, ASCII.rbracket, ASCII.caret,
     ASCII.a, ASCII.tilde, 127, 128, 255}

EscapeStrings == {Str(v) : v \in SeqsUpTo(EscapeBytes, MaxText)}

EscapePoints ==
    {Small(b) : b \in EscapeBytes \cup {ASCII.nul, ASCII.rbracket + 1, 256}}
        \cup {U32(16, Half - 1), UINT32_MAX}

EscapeRanges ==
    {grammaticaCharRangeCreate(<<Entry(s, e)>>, neg, <<Entry(s, e)>>) :
        s \in EscapePoints, e \in EscapePoints, neg \in BOOLEAN} \ {NULL}

RenderTrees ==
    RenderLeaves \cup RenderRules \cup Groups(RenderQuants, SeqsUpTo(RenderKids, MaxKids))
        \cup EscapeStrings \cup EscapeRanges

InitRender ==
    /\ arg \in [node : RenderTrees, full : BOOLEAN, wrap : BOOLEAN]
    /\ ret = NOTEXT
    /\ pc = "start"
    /\ NoHeap

Render ==
    /\ pc = "start"
    /\ ret' = grammaticaGrammarRender(arg.node, arg.full, arg.wrap)
    /\ pc' = "rendered"
    /\ UNCHANGED <<arg, heap, arrays, handles>>

NextRender == Render

SpecRender == InitRender /\ [][NextRender]_vars

\* the subexprs' texts that are not empty, joined by the separator
RECURSIVE Joined(_, _)
Joined(texts, separator) ==
    IF Len(texts) = 1 THEN texts[1]
    ELSE texts[1] \o separator \o Joined(Tail(texts), separator)

SubexprTexts(node) ==
    SelectSeq([i \in 1..Len(node.subexprs) |->
                  grammaticaGrammarRender(node.subexprs[i], FALSE, TRUE)],
              LAMBDA text : text # NOTEXT)

\* C5: a Sequence or Choice of two or more subexprs that renders to some
\* text renders the joined text in parentheses exactly when (it is a Choice
\* or its quantifier is not {1,1}) and (wrap is set or its quantifier is not
\* {1,1}); the quantifier suffix follows the closing parenthesis.
C5_Parenthesization ==
    (pc = "rendered" /\ IsGrouped(arg.node) /\ Len(arg.node.subexprs) >= 2 /\ ret # NOTEXT) =>
        LET q == arg.node.quantifier
            joined == Joined(SubexprTexts(arg.node),
                             IF arg.node.type = "OR" THEN <<ASCII.space, ASCII.bar, ASCII.space>>
                             ELSE <<ASCII.space>>)
            enclosed == (arg.node.type = "OR" \/ ~IsDefaultQ(q)) /\ (arg.wrap \/ ~IsDefaultQ(q))
            suffix == IF IsDefaultQ(q) THEN <<>> ELSE grammaticaRenderQuantifier(q)
        IN ret = (IF enclosed THEN <<ASCII.lparen>> \o joined \o <<ASCII.rparen>> ELSE joined)
                     \o suffix

\* a default-quantified Choice of two literals rendered under wrap = true
C5_Witness ==
    /\ pc = "rendered"
    /\ arg.node.type = "OR" /\ IsDefaultQ(arg.node.quantifier) /\ arg.wrap
    /\ Len(arg.node.subexprs) = 2
    /\ arg.node.subexprs[1].type = "STRING" /\ arg.node.subexprs[1].value # <<>>
    /\ arg.node.subexprs[2].type = "CHAR_RANGE"
    /\ ret # NOTEXT
    /\ ret[1] = ASCII.lparen /\ ret[Len(ret)] = ASCII.rparen

(***************************************************************************)
(* SpecHeap: the reference counts.  heap[g] is the node at address g:      *)
(* refCount, the addresses it holds a reference on (none for a             *)
(* StringLiteral or CharRange, the value of a DerivationRule, the subexprs *)
(* array of a Sequence or Choice), whether it has not been freed, and how  *)
(* often its destroy function ran; the payload that plays no part in the   *)
(* counting is left out.  arrays are the caller's GrammaticaGrammarArrays  *)
(* and handles[g] the number of references on g the caller owns.  The      *)
(* caller passes only pointers it owns a reference on, and never uses an   *)
(* array it destroyed.                                                     *)
(***************************************************************************)
Node(kids) == [refCount |-> 1, kids |-> kids, live |-> TRUE, destroyed |-> 0]

\* grammaticaGrammarRef without the increment
grammaticaGrammarRefForgotten(h, grammar) == h

grammaticaGrammarRef(h, grammar) == [h EXCEPT ![grammar].refCount = @ + 1]

\* grammaticaGrammarUnref on every address of todo in turn; the destroy
\* functions release the node's value or subexprs before the next address
RECURSIVE UnrefAll(_, _)
UnrefAll(h, todo) ==
    IF todo = <<>> THEN h
    ELSE LET grammar == Head(todo)
             old_count == h[grammar].refCount
             h1 == [h EXCEPT ![grammar].refCount = old_count - 1]
         IN IF old_count = 1
            THEN UnrefAll([h1 EXCEPT ![grammar].live = FALSE, ![grammar].destroyed = @ + 1],
                          h[grammar].kids \o Tail(todo))
            ELSE UnrefAll(h1, Tail(todo))

grammaticaGrammarUnref(h, grammar) == UnrefAll(h, <<grammar>>)

\* the appends of grammaticaGrammarArrayCopy: one reference per item
RECURSIVE RefAll(_, _)
RefAll(h, items) ==
    IF items = <<>> THEN h ELSE RefAll(grammaticaGrammarRef(h, Head(items)), Tail(items))

Owned == {g \in 1..Len(heap) : handles[g] > 0}

LiveArrays == {a \in 1..Len(arrays) : arrays[a].live}

\* a constructor's result: the new node at the next address, one reference
\* on it handed to the caller
Allocate(h, node) ==
    /\ Len(heap) < MaxObjects
    /\ heap' = Append(h, node)
    /\ handles' = Append(handles, 1)

InitHeap ==
    /\ heap = <<>>
    /\ arrays = <<>>
    /\ handles = <<>>
    /\ arg = NULL
    /\ ret = NULL
    /\ pc = "heap"

StringCreate ==
    /\ Allocate(heap, Node(<<>>))
    /\ UNCHANGED <<arg, ret, pc, arrays>>

HeapCharRangeCreate ==
    /\ Allocate(heap, Node(<<>>))
    /\ UNCHANGED <<arg, ret, pc, arrays>>

DerivationRuleCreate ==
    /\ \E value \in Owned :
          Allocate(grammaticaGrammarRef(heap, value), Node(<<value>>))
    /\ UNCHANGED <<arg, ret, pc, arrays>>

GrammarCreate ==
    /\ \E a \in LiveArrays :
          Allocate(RefAll(heap, arrays[a].items), Node(arrays[a].items))
    /\ UNCHANGED <<arg, ret, pc, arrays>>

OrCreate ==
    /\ \E a \in LiveArrays :
          Allocate(RefAll(heap, arrays[a].items), Node(arrays[a].items))
    /\ UNCHANGED <<arg, ret, pc, arrays>>

\* string_copy and char_range_copy duplicate the value; the other copy
\* functions call the constructor on the same value or subexprs
Copy ==
    /\ \E grammar \in Owned :
          Allocate(RefAll(heap, heap[grammar].kids), Node(heap[grammar].kids))
    /\ UNCHANGED <<arg, ret, pc, arrays>>

Ref ==
    /\ \E grammar \in Owned :
          /\ handles[grammar] < MaxHandles
          /\ heap' = grammaticaGrammarRef(heap, grammar)
          /\ handles' = [handles EXCEPT ![grammar] = @ + 1]
    /\ UNCHANGED <<arg, ret, pc, arrays>>

Unref ==
    /\ \E grammar \in Owned :
          /\ heap' = grammaticaGrammarUnref(heap, grammar)
          /\ handles' = [handles EXCEPT ![grammar] = @ - 1]
    /\ UNCHANGED <<arg, ret, pc, arrays>>

ArrayCreate ==
    /\ Len(arrays) < MaxArrays
    /\ arrays' = Append(arrays, [items |-> <<>>, live |-> TRUE])
    /\ UNCHANGED <<arg, ret, pc, heap, handles>>

ArrayAppend ==
    /\ \E a \in LiveArrays, grammar \in Owned :
          /\ Len(arrays[a].items) < MaxItems
          /\ arrays' = [arrays EXCEPT ![a].items = Append(@, grammar)]
          /\ heap' = grammaticaGrammarRef(heap, grammar)
    /\ UNCHANGED <<arg, ret, pc, handles>>

ArrayCopy ==
    /\ Len(arrays) < MaxArrays
    /\ \E a \in LiveArrays :
          /\ arrays' = Append(arrays, [items |-> arrays[a].items, live |-> TRUE])
          /\ heap' = RefAll(heap, arrays[a].items)
    /\ UNCHANGED <<arg, ret, pc, handles>>

ArrayDestroy ==
    /\ \E a \in LiveArrays :
          /\ arrays' = [arrays EXCEPT ![a].live = FALSE]
          /\ heap' = UnrefAll(heap, arrays[a].items)
    /\ UNCHANGED <<arg, ret, pc, handles>>

NextHeap ==
    \/ StringCreate
    \/ HeapCharRangeCreate
    \/ DerivationRuleCreate
    \/ GrammarCreate
    \/ OrCreate
    \/ Copy
    \/ Ref
    \/ Unref
    \/ ArrayCreate
    \/ ArrayAppend
    \/ ArrayCopy
    \/ ArrayDestroy

SpecHeap == InitHeap /\ [][NextHeap]_vars

\* how often g occurs in a list of addresses
Occurrences(items, g) == Cardinality({i \in 1..Len(items) : items[i] = g})

RECURSIVE Sum(_, _)
Sum(f, S) == IF S = {} THEN 0 ELSE LET x == CHOOSE y \in S : TRUE IN f[x] + Sum(f, S \ {x})

\* the live holders of g: the caller's references, the live arrays and the
\* live nodes that contain it, counted once per slot
Holders(g) ==
    handles[g]
      + Sum([a \in 1..Len(arrays) |-> Occurrences(arrays[a].items, g)], LiveArrays)
      + Sum([p \in 1..Len(heap) |-> Occurrences(heap[p].kids, g)],
            {p \in 1..Len(heap) : heap[p].live})

\* C4: under every sequence of constructor, Ref, Unref, ArrayAppend,
\* ArrayCopy, ArrayDestroy and Copy calls a node's reference count is the
\* number of its live holders; a node is destroyed exactly when the count
\* reaches 0, so never while a holder remains and never twice, and a
\* destroyed composite node has given up its one reference per child slot.
C4_RefCountIsHolders ==
    pc = "heap" =>
        \A g \in 1..Len(heap) :
            /\ heap[g].refCount = Holders(g)
            /\ heap[g].live <=> heap[g].refCount > 0
            /\ heap[g].destroyed = IF heap[g].live THEN 0 ELSE 1

\* C4, step by step: a destroy function runs in the step that takes the
\* node's count to 0, and in no other step
C4_DestroyedAtZero ==
    [][\A g \in 1..Len(heap) :
          (heap'[g].destroyed # heap[g].destroyed)
              <=> (heap[g].refCount > 0 /\ heap'[g].refCount = 0)]_vars

\* a composite node was destroyed; one of its children went with it and
\* another, still held elsewhere, survived
C4_Witness ==
    /\ pc = "heap"
    /\ \E p \in 1..Len(heap) :
          /\ ~heap[p].live
          /\ \E c, d \in 1..Len(heap) :
                /\ Occurrences(heap[p].kids, c) > 0 /\ Occurrences(heap[p].kids, d) > 0
                /\ heap[c].live /\ ~heap[d].live

(***************************************************************************)
(* Copy on the reference-counted heap (base.c, grammar.c, string.c,        *)
(* char_range.c, derivation_rule.c of src/c/src/grammar).  Here a heap     *)
(* cell holds the node as its struct does: the payload, and the addresses  *)
(* of the nodes it points at in place of the nodes themselves.             *)
(***************************************************************************)
MaxCopies == 2

Cell1(node) == [node |-> node, refCount |-> 1]

\* the addresses a node holds a reference on, one per slot
Kids(node) ==
    IF IsGrouped(node) THEN node.subexprs
    ELSE IF node.type = "DERIVATION_RULE" THEN <<node.value>>
    ELSE <<>>

\* the tree that the node at address g is the root of
RECURSIVE TreeAt(_, _)
TreeAt(h, g) ==
    LET node == h[g].node
    IN IF IsGrouped(node)
       THEN GrammaticaGroupedGrammar(node.type,
                [i \in 1..Len(node.subexprs) |-> TreeAt(h, node.subexprs[i])],
                node.quantifier)
       ELSE IF node.type = "DERIVATION_RULE"
            THEN GrammaticaDerivationRule(node.symbol, TreeAt(h, node.value))
            ELSE node

\* a constructor's allocation: the result is at address Len(h) + 1, and a
\* constructor that returned NULL leaves the heap as it was
Constructed(h, refs, node) ==
    IF node = NULL THEN h ELSE Append(RefAll(h, refs), Cell1(node))

string_copy(h, grammar) ==
    Constructed(h, <<>>, grammaticaStringCreate(h[grammar].node.value \o <<ASCII.nul>>))

char_range_copy(h, grammar) ==
    LET char_range == h[grammar].node
    IN Constructed(h, <<>>,
           grammaticaCharRangeCreate(char_range.ranges, char_range.negate,
                                     Qsort(char_range.ranges)))

\* grammaticaDerivationRuleCreate(symbol, value) on the value's address, which
\* is not the null pointer in a constructed rule: it references the value
derivation_rule_copy(h, grammar) ==
    LET rule == h[grammar].node
    IN Constructed(h, <<rule.value>>, GrammaticaDerivationRule(rule.symbol, rule.value))

\* grouped_copy_common that copies the pointers and takes no reference
grouped_copy_common_unreferenced(h, grammar, is_or) ==
    Append(h, Cell1(h[grammar].node))

\* the constructor copies the array with grammaticaGrammarArrayCopy, whose
\* appends take one reference per item
grouped_copy_common(h, grammar, is_or) ==
    LET grouped == h[grammar].node
    IN Constructed(h, grouped.subexprs,
                   IF is_or THEN grammaticaOrCreate(grouped.subexprs, grouped.quantifier)
                   ELSE grammaticaGrammarCreate(grouped.subexprs, grouped.quantifier))

\* the heap after grammaticaGrammarCopy(grammar), grammar not NULL
grammaticaGrammarCopy(h, grammar) ==
    LET type == h[grammar].node.type
    IN IF type = "STRING" THEN string_copy(h, grammar)
       ELSE IF type = "CHAR_RANGE" THEN char_range_copy(h, grammar)
       ELSE IF type = "DERIVATION_RULE" THEN derivation_rule_copy(h, grammar)
       ELSE grouped_copy_common(h, grammar, type = "OR")

CopyLeaves ==
    {Str(<<ASCII.a>>), Str(<<ASCII.a, ASCII.b>>), Str(<<>>),
     Range1(ASCII.x, ASCII.z, FALSE), Range1(ASCII.a, ASCII.a, TRUE),
     GrammaticaCharRange(<<Entry(Small(ASCII.a), Small(ASCII.c)),
                           Entry(Small(ASCII.x), UINT32_MAX)>>, FALSE)}

CopyQuants == {DefaultQ, Quantifier(0, 1), Quantifier(2, 0)}

\* the heaps after the constructors built two leaves and a Sequence, a
\* Choice or a DerivationRule over them (a Sequence or Choice may hold the
\* same leaf in both slots), and possibly one more composite over that one
CopyParents(n) ==
    {GrammaticaGroupedGrammar(ty, ks, q) :
        ty \in GroupTypes, ks \in SeqsFromTo(1..n, 1, 2), q \in CopyQuants}
    \cup {GrammaticaDerivationRule(<<ASCII.r>>, v) : v \in 1..n}

CopyHeaps0 == {<<Cell1(a), Cell1(b)>> : a \in CopyLeaves, b \in {Str(<<ASCII.b>>)}}

CopyHeaps1 == {Constructed(h, Kids(p), p) : h \in CopyHeaps0, p \in CopyParents(2)}

CopyHeaps2 ==
    {Constructed(h, Kids(p), p) :
        h \in CopyHeaps1,
        p \in {GrammaticaGroupedGrammar("GRAMMAR", <<3>>, DefaultQ),
               GrammaticaGroupedGrammar("OR", <<1, 3>>, Quantifier(0, 1)),
               GrammaticaDerivationRule(<<ASCII.s>>, 3)}}

InitCopy ==
    /\ heap \in CopyHeaps0 \cup CopyHeaps1 \cup CopyHeaps2
    /\ handles = [g \in 1..Len(heap) |-> 1]
    /\ arrays = <<>>
    /\ arg = [grammar |-> 0, before |-> <<>>, copies |-> 0]
    /\ ret = 0
    /\ pc = "built"

\* ret = grammaticaGrammarCopy(grammar) for a node the caller holds
CopyNode ==
    /\ arg.copies < MaxCopies
    /\ \E grammar \in 1..Len(heap) :
          /\ handles[grammar] > 0
          /\ heap' = grammaticaGrammarCopy(heap, grammar)
          /\ arg' = [grammar |-> grammar, before |-> heap, copies |-> arg.copies + 1]
    /\ ret' = IF Len(heap') > Len(heap) THEN Len(heap') ELSE 0
    /\ handles' = IF ret' = 0 THEN handles ELSE Append(handles, 1)
    /\ pc' = "copied"
    /\ UNCHANGED arrays

NextCopy == CopyNode

SpecCopy == InitCopy /\ [][NextCopy]_vars

MaxQuant == 3

\* the values tried for min and max: the small ones, a two-digit one and a
\* ten-digit one (the code only compares and prints the two numbers)
QuantValues == 0..MaxQuant \cup {10, 2147483647}

QuantPairs == {Quantifier(mn, mx) : mn \in QuantValues, mx \in QuantValues}

QuantKids == {<<Str(<<ASCII.a>>)>>, <<Str(<<ASCII.a>>), Range1(ASCII.x, ASCII.z, FALSE)>>}

InitQuantifier ==
    /\ arg \in [type : GroupTypes, subexprs : QuantKids, quantifier : QuantPairs]
    /\ ret = [node |-> NULL, suffix |-> NOTEXT, text |-> NOTEXT]
    /\ pc = "start"
    /\ NoHeap

\* ret.node = grammaticaGrammarCreate / grammaticaOrCreate(subexprs, quantifier)
GroupCreate ==
    /\ pc = "start"
    /\ ret' = [ret EXCEPT !.node = IF arg.type = "OR"
                                   THEN grammaticaOrCreate(arg.subexprs, arg.quantifier)
                                   ELSE grammaticaGrammarCreate(arg.subexprs, arg.quantifier)]
    /\ pc' = "created"
    /\ UNCHANGED <<arg, heap, arrays, handles>>

\* ret.text = grammaticaGrammarRender(node, true, false) of the created node
RenderCreated ==
    /\ pc = "created"
    /\ ret.node # NULL
    /\ ret' = [ret EXCEPT !.text = grammaticaGrammarRender(ret.node, TRUE, FALSE)]
    /\ pc' = "rendered"
    /\ UNCHANGED <<arg, heap, arrays, handles>>

\* ret.suffix = grammaticaRenderQuantifier(quantifier)
RenderQuantifier ==
    /\ pc = "start"
    /\ ret' = [ret EXCEPT !.suffix = grammaticaRenderQuantifier(arg.quantifier)]
    /\ pc' = "quantified"
    /\ UNCHANGED <<arg, heap, arrays, handles>>

NextQuantifier == GroupCreate \/ RenderCreated \/ RenderQuantifier

SpecQuantifier == InitQuantifier /\ [][NextQuantifier]_vars

\* the data-model invariant: a bounded max is at least 1 and at least min
WellFormedQuantifier(q) == q.max = 0 \/ (q.max >= 1 /\ q.min <= q.max)

RECURSIVE DecimalValue(_)
DecimalValue(digits) ==
    IF digits = <<>> THEN 0
    ELSE 10 * DecimalValue(SubSeq(digits, 1, Len(digits) - 1))
            + (digits[Len(digits)] - ASCII.zero)

\* digits is n in decimal with no padding: digits only, no leading zero
\* other than the single digit 0 (ten digits at most, as in a uint32_t)
IsPlainDecimal(digits, n) ==
    /\ Len(digits) \in 1..10
    /\ \A i \in 1..Len(digits) : digits[i] \in ASCII.zero..ASCII.nine
    /\ Len(digits) > 1 => digits[1] # ASCII.zero
    /\ DecimalValue(digits) = n

\* text is { body }
Braced(text, body) == text = <<ASCII.lbrace>> \o body \o <<ASCII.rbrace>>

\* text is {n,m} with both numbers in plain decimal
IsMinMax(text, n, m) ==
    \E k \in 2..(Len(text) - 1) :
        /\ text[1] = ASCII.lbrace
        /\ text[Len(text)] = ASCII.rbrace
        /\ text[k] = ASCII.comma
        /\ IsPlainDecimal(SubSeq(text, 2, k - 1), n)
        /\ IsPlainDecimal(SubSeq(text, k + 1, Len(text) - 1), m)

\* the seven forms of the claim, in its order; max = 0 is "unbounded"
QuantifierForm(q) ==
    IF q = Quantifier(1, 1) THEN "none"
    ELSE IF q = Quantifier(0, 1) THEN "?"
    ELSE IF q = Quantifier(0, 0) THEN "*"
    ELSE IF q = Quantifier(1, 0) THEN "+"
    ELSE IF q.min = q.max THEN "{n}"
    ELSE IF q.max = 0 /\ q.min >= 2 THEN "{n,}"
    ELSE "{n,m}"

\* C14: for every quantifier satisfying the invariant, grammaticaRenderQuantifier
\* returns NULL for {1,1}, ? for {0,1}, * for {0,0}, + for {1,0}, {n} for
\* {n,n}, {n,} for {n,0} with n >= 2 and {n,m} otherwise, the numbers in
\* decimal without padding; the forms are told apart by the quantifier alone.
C14_RenderQuantifier ==
    (pc = "quantified" /\ WellFormedQuantifier(arg.quantifier)) =>
        LET q == arg.quantifier
            form == QuantifierForm(q)
            text == ret.suffix
        IN /\ form = "none" <=> text = NOTEXT
           /\ form = "?" <=> text = <<ASCII.question>>
           /\ form = "*" <=> text = <<ASCII.star>>
           /\ form = "+" <=> text = <<ASCII.plus>>
           /\ form = "{n}" =>
                 \E d \in {SubSeq(text, 2, Len(text) - 1)} :
                    Braced(text, d) /\ IsPlainDecimal(d, q.min) /\ q.min >= 2
           /\ form = "{n,}" =>
                 \E d \in {SubSeq(text, 2, Len(text) - 2)} :
                    Braced(text, d \o <<ASCII.comma>>) /\ IsPlainDecimal(d, q.min)
           /\ form = "{n,m}" => (IsMinMax(text, q.min, q.max) /\ q.min < q.max)

\* {2,10} was rendered as the seven characters {2,10}
C14_Witness ==
    /\ pc = "quantified"
    /\ arg.quantifier = Quantifier(2, 10)
    /\ ret.suffix = <<ASCII.lbrace, ASCII.zero + 2, ASCII.comma, ASCII.zero + 1,
                      ASCII.zero, ASCII.rbrace>>

\* C13: grammaticaCharRangeCreate returns NULL when it is given no entry and
\* when any entry as supplied has end < start, whatever the other entries
\* and negate are: an inverted entry lying inside a valid neighbour is not
\* absorbed by the sort and merge, which run only after the check.
C13_RangeValidation ==
    (/\ pc \in {"created", "simplified"}
     /\ \/ Len(arg.ranges) = 0
        \/ \E i \in 1..Len(arg.ranges) : Lt32(arg.ranges[i].end, arg.ranges[i].start))
        => ret.node = NULL

\* [0-3] together with the inverted entry (3, 1), negated: refused
C13_Witness ==
    /\ pc = "created"
    /\ arg.ranges = <<Entry(Small(0), Small(3)), Entry(Small(3), Small(1))>>
    /\ arg.negate
    /\ ret.node = NULL

(***************************************************************************)
(* Escaping, checked on the renderer's inputs of SpecRender.               *)
(***************************************************************************)
\* the digits of uppercase hexadecimal, by value
HexDigits ==
    <<ASCII.zero, ASCII.zero + 1, ASCII.zero + 2, ASCII.zero + 3, ASCII.zero + 4,
      ASCII.zero + 5, ASCII.zero + 6, ASCII.zero + 7, ASCII.zero + 8, ASCII.nine,
      ASCII.A, ASCII.A + 1, ASCII.A + 2, ASCII.A + 3, ASCII.A + 4, ASCII.A + 5>>

\* the eight hexadecimal places of a 32-bit value, most significant first
Nibbles(ch) ==
    <<(ch.hi \div 4096) % 16, (ch.hi \div 256) % 16, (ch.hi \div 16) % 16, ch.hi % 16,
      (ch.lo \div 4096) % 16, (ch.lo \div 256) % 16, (ch.lo \div 16) % 16, ch.lo % 16>>

\* leading zero places dropped while more than two places remain
RECURSIVE NaturalWidth(_)
NaturalWidth(places) ==
    IF Len(places) > 2 /\ Head(places) = 0 THEN NaturalWidth(Tail(places)) ELSE places

\* backslash, x, and the value in uppercase hexadecimal: two digits up to
\* 0xFF, as many as the value needs above
HexEscape(ch) ==
    LET places == NaturalWidth(Nibbles(ch))
    IN <<ASCII.backslash, ASCII.x>> \o [i \in 1..Len(places) |-> HexDigits[places[i] + 1]]

ControlShorthand(ch) ==
    IF ch = Small(ASCII.lf) THEN <<ASCII.backslash, ASCII.n>>
    ELSE IF ch = Small(ASCII.cr) THEN <<ASCII.backslash, ASCII.r>>
    ELSE <<ASCII.backslash, ASCII.t>>

IsControl(ch) == ch \in {Small(ASCII.lf), Small(ASCII.cr), Small(ASCII.tab)}

\* one character in string-literal context, in the claim's order
StringContext(ch) ==
    IF IsControl(ch) THEN ControlShorthand(ch)
    ELSE IF ch \in {Small(ASCII.quote), Small(ASCII.backslash)} THEN <<ASCII.backslash, ch.lo>>
    ELSE IF grammaticaIsAlwaysSafeChar(ch) THEN <<ch.lo>>
    ELSE HexEscape(ch)

\* one character in range context, in the claim's order
RangeContext(ch) ==
    IF ch \in {Small(ASCII.caret), Small(ASCII.minus), Small(ASCII.lbracket),
               Small(ASCII.rbracket), Small(ASCII.backslash)}
    THEN <<ASCII.backslash, ch.lo>>
    ELSE IF IsControl(ch) THEN ControlShorthand(ch)
    ELSE IF grammaticaIsAlwaysSafeChar(ch) THEN <<ch.lo>>
    ELSE HexEscape(ch)

RECURSIVE StringContextAll(_)
StringContextAll(value) ==
    IF value = <<>> THEN <<>>
    ELSE StringContext(Small(Head(value))) \o StringContextAll(Tail(value))

\* C15: string_render returns NULL for the empty StringLiteral, and for any
\* other a double quote, each character of the value in order as its
\* shorthand (newline, carriage return, tab), as backslash and itself
\* (double quote, backslash), as itself (always-safe) or as backslash, x and
\* two uppercase hexadecimal digits, and a closing double quote.
C15_StringRender ==
    (pc = "rendered" /\ arg.node.type = "STRING") =>
        ret = IF arg.node.value = <<>> THEN NOTEXT
              ELSE <<ASCII.quote>> \o StringContextAll(arg.node.value) \o <<ASCII.quote>>

\* the two characters backslash and 0xFF render as "\\\xFF"
C15_Witness ==
    /\ pc = "rendered"
    /\ arg.node = Str(<<ASCII.backslash, 255>>)
    /\ ret = <<ASCII.quote, ASCII.backslash, ASCII.backslash, ASCII.backslash, ASCII.x,
               ASCII.A + 5, ASCII.A + 5, ASCII.quote>>

RuleArrow == <<ASCII.space, ASCII.colon, ASCII.colon, ASCII.equals, ASCII.space>>

\* C17: derivation_rule_render returns the symbol alone when full is false;
\* when full is true it returns NULL if the value renders to nothing, and
\* otherwise the symbol, " ::= " and the value's text, the value being
\* rendered with the wrap flag the caller gave (so a Choice value is in
\* parentheses exactly when the caller set wrap).
C17_DerivationRuleRender ==
    (pc = "rendered" /\ arg.node.type = "DERIVATION_RULE") =>
        LET symbol == arg.node.symbol
            value == grammaticaGrammarRender(arg.node.value, FALSE, arg.wrap)
        IN /\ ~arg.full => ret = symbol
           /\ (arg.full /\ value = NOTEXT) => ret = NOTEXT
           /\ (arg.full /\ value # NOTEXT) => ret = symbol \o RuleArrow \o value
           /\ (/\ arg.full
               /\ arg.node.value.type = "OR"
               /\ IsDefaultQ(arg.node.value.quantifier)
               /\ Len(SubexprTexts(arg.node.value)) >= 2)
                 => (ret[Len(symbol) + Len(RuleArrow) + 1] = ASCII.lparen <=> arg.wrap)

\* the rule r over the Choice of "a" and "b", full form, wrap set:
\* r ::= ("a" | "b")
C17_Witness ==
    /\ pc = "rendered"
    /\ arg.full
    /\ arg.wrap
    /\ arg.node = grammaticaDerivationRuleCreate(<<ASCII.r>>,
                      Create("OR", <<Str(<<ASCII.a>>), Str(<<ASCII.b>>)>>, DefaultQ))
    /\ ret = <<ASCII.r>> \o RuleArrow
                \o <<ASCII.lparen, ASCII.quote, ASCII.a, ASCII.quote, ASCII.space, ASCII.bar,
                     ASCII.space, ASCII.quote, ASCII.b, ASCII.quote, ASCII.rparen>>

IsDefaultChoice(t) == t.type = "OR" /\ IsDefaultQ(t.quantifier)

\* C18: simplifying a Choice all of whose children are default-quantified
\* Choices gives a Choice that holds the children's alternatives themselves:
\* no default-quantified Choice is a direct child of the resulting Choice.
C18_NestedChoiceFlattened ==
    (/\ pc = "simplified"
     /\ arg.x.type = "OR"
     /\ \A i \in 1..Len(arg.x.subexprs) : IsDefaultChoice(arg.x.subexprs[i])
     /\ ret.first \notin {NULL, CRASH}
     /\ ret.first.type = "OR")
        => \A i \in 1..Len(ret.first.subexprs) : ~IsDefaultChoice(ret.first.subexprs[i])

\* C19: simplifying a Sequence with quantifier {0,1} whose only child is a
\* Choice with quantifier {0,1} that keeps two or more distinct alternatives
\* gives a node of type Choice.
C19_OptionalWrapperRemoved ==
    (/\ pc = "simplified"
     /\ arg.x.type = "GRAMMAR"
     /\ arg.x.quantifier = Quantifier(0, 1)
     /\ Len(arg.x.subexprs) = 1
     /\ arg.x.subexprs[1].type = "OR"
     /\ arg.x.subexprs[1].quantifier = Quantifier(0, 1)
     /\ Len(Surviving(arg.x.subexprs[1])) >= 2
     /\ ret.first # CRASH)
        => (ret.first # NULL /\ ret.first.type = "OR")

\* C20: grammaticaGrammarEquals returns false whenever at least one of its
\* two node arguments is the null pointer, the call with two null pointers
\* included, whatever check_quantifier is.
C20_EqualsNullIsFalse ==
    (pc = "compared" /\ (arg.a = NULL \/ arg.b = NULL)) => ret = FALSE

(***************************************************************************)
(* SpecEmpty: grammaticaGrammarSimplify and grammaticaGrammarRender on     *)
(* Sequences and Choices with no subexprs, or with subexprs that come to   *)
(* nothing, next to ones that do not.                                      *)
(***************************************************************************)
EmptyLeaves == {Str(<<>>), Str(<<ASCII.a>>), Range1(ASCII.x, ASCII.z, FALSE)}

EmptyInner ==
    Groups({DefaultQ, Quantifier(0, 1), Quantifier(2, 3)},
           {<<>>, <<Str(<<>>)>>, <<Str(<<>>), Str(<<>>)>>})
        \cup {Create("GRAMMAR", <<Str(<<ASCII.a>>)>>, Quantifier(0, 1)),
              grammaticaDerivationRuleCreate(<<ASCII.r>>, Str(<<>>))}

EmptyTrees ==
    Groups(RenderQuants, SeqsUpTo(EmptyLeaves, MaxKids) \cup Short(EmptyInner))

InitEmpty ==
    /\ arg \in [x : EmptyTrees, full : BOOLEAN, wrap : BOOLEAN]
    /\ ret = [simplified |-> NULL, text |-> NOTEXT]
    /\ pc = "start"
    /\ NoHeap

EmptySimplify ==
    /\ pc = "start"
    /\ \E ub \in UBOutcomes :
          ret' = [ret EXCEPT !.simplified = grammaticaGrammarSimplify(arg.x, ub)]
    /\ pc' = "simplified"
    /\ UNCHANGED <<arg, heap, arrays, handles>>

EmptyRender ==
    /\ pc = "start"
    /\ ret' = [ret EXCEPT !.text = grammaticaGrammarRender(arg.x, arg.full, arg.wrap)]
    /\ pc' = "rendered"
    /\ UNCHANGED <<arg, heap, arrays, handles>>

NextEmpty == EmptySimplify \/ EmptyRender

SpecEmpty == InitEmpty /\ [][NextEmpty]_vars

\* no Sequence or Choice in the tree has an empty child list
RECURSIVE NoEmptyGroup(_)
NoEmptyGroup(t) ==
    IF IsGrouped(t)
    THEN Len(t.subexprs) > 0 /\ \A i \in 1..Len(t.subexprs) : NoEmptyGroup(t.subexprs[i])
    ELSE IF t.type = "DERIVATION_RULE" THEN NoEmptyGroup(t.value)
    ELSE TRUE

\* C21: a Sequence or Choice with no subexprs, or whose subexprs all
\* simplify to NULL, simplifies to NULL whatever its quantifier; one with no
\* subexprs, or whose subexprs all render to NULL, renders to NULL (no
\* parentheses, no suffix); and no node Simplify returns holds a Sequence or
\* Choice with an empty child list.
C21_EmptyGroups ==
    LET subexprs == arg.x.subexprs
    IN /\ (/\ pc = "simplified"
           /\ \A i \in 1..Len(subexprs) :
                 grammaticaGrammarSimplify(subexprs[i], "stale") = NULL)
             => ret.simplified = NULL
       /\ (pc = "simplified" /\ ret.simplified \notin {NULL, CRASH})
             => NoEmptyGroup(ret.simplified)
       /\ (/\ pc = "rendered"
           /\ \A i \in 1..Len(subexprs) :
                 grammaticaGrammarRender(subexprs[i], FALSE, TRUE) = NOTEXT)
             => ret = [simplified |-> NULL, text |-> NOTEXT]

\* a Choice quantified {0,0} over an empty literal and a Sequence of an
\* empty literal simplified to NULL
C21_Witness ==
    /\ pc = "simplified"
    /\ arg.x.type = "OR"
    /\ arg.x.quantifier = Quantifier(0, 0)
    /\ Len(arg.x.subexprs) = 2
    /\ arg.x.subexprs[1].type = "GRAMMAR"
    /\ arg.x.subexprs[1].quantifier = Quantifier(2, 3)
    /\ arg.x.subexprs[1].subexprs = <<Str(<<>>)>>
    /\ IsGrouped(arg.x.subexprs[2])
    /\ arg.x.subexprs[2].subexprs = <<>>
    /\ ret.simplified = NULL

(***************************************************************************)
(* SpecRenderAlloc: grouped_render_common with one of its own allocations  *)
(* failing.  `failed` names the allocation that returns NULL: the          *)
(* quantifier text (strdup or malloc(64) in grammaticaRenderQuantifier),   *)
(* the string builder, the buffer for "(%s)" or the buffer for "%s%s".     *)
(***************************************************************************)
AllocSites == {"none", "rendered_quantifier", "sb", "wrapped", "with_quantifier"}

grouped_render_common_alloc(grammar, full, wrap, separator, is_or, failed) ==
    IF Len(grammar.subexprs) < 1 THEN NOTEXT
    ELSE LET needs_wrap == IF is_or THEN needs_wrapped_or(grammar)
                           ELSE needs_wrapped_grammar(grammar)
             rendered_quantifier ==
                 IF failed = "rendered_quantifier" THEN NOTEXT
                 ELSE grammaticaRenderQuantifier(grammar.quantifier)
             expr == RenderedSubexprs(grammar.subexprs, 1, separator, NOTEXT)
             wrapped == IF needs_wrap /\ (wrap \/ rendered_quantifier # NOTEXT)
                           /\ failed # "wrapped"
                        THEN <<ASCII.lparen>> \o expr \o <<ASCII.rparen>>
                        ELSE expr
         IN IF failed = "sb" THEN NOTEXT
            ELSE IF expr = NOTEXT THEN NOTEXT
            ELSE IF rendered_quantifier # NOTEXT /\ failed # "with_quantifier"
                 THEN wrapped \o rendered_quantifier
                 ELSE wrapped

AllocTrees == Groups(RenderQuants, SeqsFromTo(RenderKids, 1, MaxKids))

InitRenderAlloc ==
    /\ arg \in [node : AllocTrees, full : BOOLEAN, wrap : BOOLEAN, failed : AllocSites]
    /\ ret = NOTEXT
    /\ pc = "start"
    /\ NoHeap

RenderAlloc ==
    /\ pc = "start"
    /\ ret' = grouped_render_common_alloc(arg.node, arg.full, arg.wrap,
                  IF arg.node.type = "OR" THEN <<ASCII.space, ASCII.bar, ASCII.space>>
                  ELSE <<ASCII.space>>,
                  arg.node.type = "OR", arg.failed)
    /\ pc' = "rendered"
    /\ UNCHANGED <<arg, heap, arrays, handles>>

NextRenderAlloc == RenderAlloc

SpecRenderAlloc == InitRenderAlloc /\ [][NextRenderAlloc]_vars

\* C22: grammaticaGrammarRender returns the complete rendering or NULL: when
\* an allocation fails while the parentheses or the quantifier suffix are
\* added, the text without them is not what the call returns.
C22_RenderAllOrNothing ==
    pc = "rendered" =>
        ret \in {NOTEXT, grammaticaGrammarRender(arg.node, arg.full, arg.wrap)}

\* C23: simplifying a Sequence quantified {0,1} whose only surviving child
\* is a Sequence quantified {0,1} or {1,1} gives what simplifying the
\* Sequence of the inner Sequence's subexprs with quantifier {0,1} gives.
C23_OptionalSequenceCollapsed ==
    (/\ pc = "simplified"
     /\ arg.x.type = "GRAMMAR"
     /\ arg.x.quantifier = Quantifier(0, 1)
     /\ ret.first # CRASH
     /\ Len(Surviving(arg.x)) = 1
     /\ Head(Surviving(arg.x)).type = "GRAMMAR"
     /\ Head(Surviving(arg.x)).quantifier \in {Quantifier(0, 1), Quantifier(1, 1)})
        => ret.first = grammaticaGrammarSimplify(
                           grammaticaGrammarCreate(Head(Surviving(arg.x)).subexprs,
                                                   Quantifier(0, 1)),
                           "stale")

\* C24: when simplification of a Choice with quantifier q leaves exactly one
\* surviving alternative s, the result is structurally equal, variant and
\* quantifier included, to the result of simplifying Sequence([s], q).
C24_SingleChoiceAsSequence ==
    (/\ pc = "simplified"
     /\ arg.x.type = "OR"
     /\ ret.first # CRASH
     /\ Len(Surviving(arg.x)) = 1)
        => ret.first = grammaticaGrammarSimplify(
                           grammaticaGrammarCreate(<<Head(Surviving(arg.x))>>,
                                                   arg.x.quantifier),
                           "stale")

\* C25: a Sequence or Choice with exactly one subexpr is never parenthesized
\* when its quantifier is {1,1}; otherwise parentheses are emitted exactly
\* when the first node below it that is not a single-child {1,1} Sequence or
\* Choice is itself a Sequence or Choice, so a chain ending in a leaf
\* renders as the leaf text followed directly by the quantifier suffix.
C25_SingleChildParentheses ==
    (/\ pc = "rendered"
     /\ IsGrouped(arg.node)
     /\ Len(arg.node.subexprs) = 1
     /\ ret # NOTEXT)
        => LET child == grammaticaGrammarRender(arg.node.subexprs[1], FALSE, TRUE)
               suffix == grammaticaRenderQuantifier(arg.node.quantifier)
           IN IF IsDefaultQ(arg.node.quantifier) THEN ret = child
              ELSE IF IsGrouped(Innermost(arg.node.subexprs[1]))
                   THEN ret = <<ASCII.lparen>> \o child \o <<ASCII.rparen>> \o suffix
                   ELSE ret = child \o suffix

\* the separator a Sequence or Choice puts between its subexprs
SeparatorOf(node) ==
    IF node.type = "OR" THEN <<ASCII.space, ASCII.bar, ASCII.space>> ELSE <<ASCII.space>>

\* C26: a Sequence or Choice renders the renderings of its subexprs (short
\* form, wrap forced true) in stored order, skipping every empty one, with
\* exactly one separator between two consecutive non-empty renderings and
\* none at the start or end; with no non-empty rendering it renders nothing.
C26_SubexprsJoined ==
    (pc = "rendered" /\ IsGrouped(arg.node)) =>
        LET texts == SubexprTexts(arg.node)
            suffix == IF IsDefaultQ(arg.node.quantifier) THEN <<>>
                      ELSE grammaticaRenderQuantifier(arg.node.quantifier)
        IN IF texts = <<>> THEN ret = NOTEXT
           ELSE LET joined == Joined(texts, SeparatorOf(arg.node))
                IN ret \in {joined \o suffix,
                            <<ASCII.lparen>> \o joined \o <<ASCII.rparen>> \o suffix}

\* a Choice of an empty literal and a CharRange rendered as the CharRange
\* alone, and nothing before or after it
C26_Witness ==
    /\ pc = "rendered"
    /\ arg.node.type = "OR" /\ IsDefaultQ(arg.node.quantifier) /\ ~arg.wrap
    /\ Len(arg.node.subexprs) = 2
    /\ arg.node.subexprs[1] = Str(<<>>)
    /\ arg.node.subexprs[2].type = "CHAR_RANGE"
    /\ ret = grammaticaGrammarRender(arg.node.subexprs[2], FALSE, TRUE)

(***************************************************************************)
(* SpecFrame: Render, Simplify, Equals and Copy on nodes of a heap.        *)
(* heap[g] is the node at address g with the addresses of its value or     *)
(* subexprs in place of the subtrees, its refCount, whether it has not     *)
(* been freed and how often its destroy function ran.  A store is the heap *)
(* together with the owners of the arrays rewritten in place since the     *)
(* call began: 0 for an array the call created itself, g for the subexprs  *)
(* array of the node at address g.                                         *)
(***************************************************************************)
MaxCalls == 2

FrameCell(node) ==
    [node |-> node, refCount |-> 1, kids |-> Kids(node), live |-> TRUE, destroyed |-> 0]

\* a constructor's allocation at address Len(h) + 1; the constructor takes
\* one reference on every address of refs
Allocated(h, refs, node) == Append(RefAll(h, refs), FrameCell(node))

Fresh(s, refs, node) ==
    IF node = NULL THEN [s |-> s, p |-> 0]
    ELSE [s |-> [s EXCEPT !.heap = Allocated(@, refs, node)], p |-> Len(s.heap) + 1]

Released(s, items) == [s EXCEPT !.heap = UnrefAll(@, items)]

Rewritten(s, owner) == [s EXCEPT !.rewritten = @ \cup {owner}]

RECURSIVE ValuesAt(_, _, _, _)
ValuesAt(h, items, from, to) ==
    IF from > to THEN <<>>
    ELSE h[items[from]].node.value \o ValuesAt(h, items, from + 1, to)

RECURSIVE RunEndAt(_, _, _)
RunEndAt(h, items, r) ==
    IF r < Len(items) /\ h[items[r + 1]].node.type = "STRING"
    THEN RunEndAt(h, items, r + 1) ELSE r

\* grammaticaMergeAdjacentStrings on the array `items` of `owner`:
\* write_pos w, read_pos r (1-based here)
RECURSIVE MergeAt(_, _, _, _, _)
MergeAt(s, owner, items, w, r) ==
    IF r > Len(items) THEN [s |-> s, items |-> SubSeq(items, 1, w - 1)]
    ELSE IF s.heap[items[r]].node.type = "STRING"
         THEN LET e == RunEndAt(s.heap, items, r)
                  value == ValuesAt(s.heap, items, r, e)
                  run == [k \in 1..(e - r + 1) |-> items[r + k - 1]]
                  others == SelectSeq([k \in 1..(e - r + 1) |->
                                          IF r + k - 1 = w THEN 0 ELSE items[r + k - 1]],
                                      LAMBDA p : p # 0)
                  merged_string == Fresh(Released(s, others), <<>>,
                                         grammaticaStringCreate(value))
                  s2 == Released(merged_string.s, <<items[w]>>)
              IN MergeAt(Rewritten(s2, owner), owner,
                         [items EXCEPT ![w] = merged_string.p], w + 1, e + 1)
         ELSE IF w # r
              THEN MergeAt(Rewritten(s, owner), owner, [items EXCEPT ![w] = items[r]],
                           w + 1, r + 1)
              ELSE MergeAt(s, owner, items, w + 1, r + 1)

grammaticaMergeAdjacentStringsAt(s, owner, items) ==
    IF Len(items) < 2 THEN [s |-> s, items |-> items]
    ELSE MergeAt(s, owner, items, 1, 1)

RECURSIVE grammaticaGrammarSimplifyAt(_, _)

string_simplify_at(s, grammar) == Fresh(s, <<>>, string_simplify(s.heap[grammar].node))

char_range_simplify_at(s, grammar) ==
    Fresh(s, <<>>, char_range_simplify(s.heap[grammar].node))

derivation_rule_simplify_at(s, grammar) ==
    LET rule == s.heap[grammar].node
        simplified_value == grammaticaGrammarSimplifyAt(s, rule.value)
    IN IF simplified_value.p = 0 THEN simplified_value
       ELSE LET result == Fresh(simplified_value.s, <<simplified_value.p>>,
                                GrammaticaDerivationRule(rule.symbol, simplified_value.p))
            IN [s |-> Released(result.s, <<simplified_value.p>>), p |-> result.p]

\* the loop of grammar_simplify: simplified_array takes a reference on each
\* result and the loop gives its own up, so the array holds the only one
RECURSIVE SimplifiedItems(_, _, _, _)
SimplifiedItems(s, subexprs, i, items) ==
    IF i > Len(subexprs) THEN [s |-> s, items |-> items]
    ELSE LET simplified == grammaticaGrammarSimplifyAt(s, subexprs[i])
         IN IF simplified.p = 0 THEN SimplifiedItems(simplified.s, subexprs, i + 1, items)
            ELSE SimplifiedItems(simplified.s, subexprs, i + 1,
                                 Append(items, simplified.p))

\* the loop of or_simplify: a duplicate is not appended and loses its only
\* reference
RECURSIVE OrSimplifiedItems(_, _, _, _)
OrSimplifiedItems(s, subexprs, i, items) ==
    IF i > Len(subexprs) THEN [s |-> s, items |-> items]
    ELSE LET simplified == grammaticaGrammarSimplifyAt(s, subexprs[i])
             h == simplified.s.heap
             duplicate == \E j \in 1..Len(items) :
                              grammaticaGrammarEquals(TreeAt(h, simplified.p),
                                                      TreeAt(h, items[j]), TRUE, FALSE)
         IN IF simplified.p = 0 THEN OrSimplifiedItems(simplified.s, subexprs, i + 1, items)
            ELSE IF duplicate
                 THEN OrSimplifiedItems(Released(simplified.s, <<simplified.p>>),
                                        subexprs, i + 1, items)
                 ELSE OrSimplifiedItems(simplified.s, subexprs, i + 1,
                                        Append(items, simplified.p))

\* the end of grammar_simplify and or_simplify: the single item of a {1,1}
\* group is referenced and returned, otherwise the constructor copies the
\* array; simplified_array is destroyed in both cases
GroupResult(s, items, quantifier, is_or) ==
    IF Len(items) = 0 THEN [s |-> s, p |-> 0]
    ELSE IF Len(items) = 1 /\ quantifier.min = 1 /\ quantifier.max = 1
         THEN [s |-> Released([s EXCEPT !.heap = grammaticaGrammarRef(@, items[1])], items),
               p |-> items[1]]
         ELSE LET result == Fresh(s, items,
                                  IF is_or THEN grammaticaOrCreate(items, quantifier)
                                  ELSE grammaticaGrammarCreate(items, quantifier))
              IN [s |-> Released(result.s, items), p |-> result.p]

\* grammar_simplify that merges the node's own subexprs array and returns
\* the node itself
grammar_simplify_in_place(s, grammar) ==
    LET grouped == s.heap[grammar].node
        merged == grammaticaMergeAdjacentStringsAt(s, grammar, grouped.subexprs)
    IN [s |-> [merged.s EXCEPT !.heap[grammar].node.subexprs = merged.items,
                               !.heap[grammar].refCount = @ + 1],
        p |-> grammar]

grammar_simplify_at(s, grammar) ==
    LET grouped == s.heap[grammar].node
        simplified_array == SimplifiedItems(s, grouped.subexprs, 1, <<>>)
        merged == grammaticaMergeAdjacentStringsAt(simplified_array.s, 0,
                                                   simplified_array.items)
    IN IF Len(simplified_array.items) = 0 THEN [s |-> simplified_array.s, p |-> 0]
       ELSE GroupResult(merged.s, merged.items, grouped.quantifier, FALSE)

or_simplify_at(s, grammar) ==
    LET grouped == s.heap[grammar].node
        simplified_array == OrSimplifiedItems(s, grouped.subexprs, 1, <<>>)
    IN GroupResult(simplified_array.s, simplified_array.items, grouped.quantifier, TRUE)

grammaticaGrammarSimplifyAt(s, grammar) ==
    LET type == s.heap[grammar].node.type
    IN IF type = "STRING" THEN string_simplify_at(s, grammar)
       ELSE IF type = "CHAR_RANGE" THEN char_range_simplify_at(s, grammar)
       ELSE IF type = "DERIVATION_RULE" THEN derivation_rule_simplify_at(s, grammar)
       ELSE IF type = "GRAMMAR" THEN grammar_simplify_at(s, grammar)
       ELSE or_simplify_at(s, grammar)

\* a freed node was referenced, released or left in a live node
StaleUse(h) ==
    \E g \in 1..Len(h) :
        \/ h[g].destroyed > 1
        \/ ~h[g].live /\ h[g].refCount # 0
        \/ h[g].live /\ \E i \in 1..Len(h[g].kids) : ~h[h[g].kids[i]].live

\* the heap after the constructors built the tree t bottom-up, the caller
\* keeping its reference on every node
RECURSIVE Built(_, _)
RECURSIVE BuiltAll(_, _, _, _)
BuiltAll(h, subexprs, i, items) ==
    IF i > Len(subexprs) THEN [h |-> h, items |-> items]
    ELSE LET b == Built(h, subexprs[i])
         IN BuiltAll(b.h, subexprs, i + 1, Append(items, b.p))

Built(h, t) ==
    IF IsGrouped(t)
    THEN LET ks == BuiltAll(h, t.subexprs, 1, <<>>)
         IN [h |-> Allocated(ks.h, ks.items,
                             GrammaticaGroupedGrammar(t.type, ks.items, t.quantifier)),
             p |-> Len(ks.h) + 1]
    ELSE IF t.type = "DERIVATION_RULE"
         THEN LET v == Built(h, t.value)
              IN [h |-> Allocated(v.h, <<v.p>>, GrammaticaDerivationRule(t.symbol, v.p)),
                  p |-> Len(v.h) + 1]
         ELSE [h |-> Append(h, FrameCell(t)), p |-> Len(h) + 1]

FrameKids ==
    {Str(<<ASCII.a>>), Str(<<>>), Range1(ASCII.x, ASCII.z, FALSE),
     Range1(ASCII.b, ASCII.b, FALSE),
     Create("GRAMMAR", <<Str(<<ASCII.a>>), Str(<<ASCII.b>>)>>, Quantifier(0, 1))}

FrameTrees ==
    Groups({DefaultQ, Quantifier(0, 1)}, Short(FrameKids))
        \cup {Create("GRAMMAR", <<Str(<<ASCII.a>>), Str(<<ASCII.b>>),
                                  Range1(ASCII.x, ASCII.z, FALSE), Str(<<ASCII.a>>)>>,
                     DefaultQ),
              Create("GRAMMAR", <<Range1(ASCII.x, ASCII.z, FALSE), Str(<<ASCII.a>>),
                                  Str(<<ASCII.b>>)>>, Quantifier(0, 1)),
              grammaticaDerivationRuleCreate(<<ASCII.r>>,
                  Create("OR", <<Str(<<ASCII.a>>), Str(<<ASCII.a>>)>>, DefaultQ))}

InitFrame ==
    /\ heap \in {Built(<<>>, t).h : t \in FrameTrees}
    /\ handles = [g \in 1..Len(heap) |-> 1]
    /\ arrays = <<>>
    /\ arg = [op |-> "none", grammar |-> 0, other |-> 0, before |-> <<>>, calls |-> 0]
    /\ ret = [value |-> 0, rewritten |-> {}]
    /\ pc = "built"

\* the nodes the caller may pass: it holds a reference on them
Callable ==
    IF pc \in {"built", "returned"} /\ arg.calls < MaxCalls /\ ~StaleUse(heap)
    THEN {g \in 1..Len(heap) : handles[g] > 0}
    ELSE {}

Called(op, grammar, other) ==
    arg' = [op |-> op, grammar |-> grammar, other |-> other, before |-> heap,
            calls |-> arg.calls + 1]

\* the caller owns the one reference on the result
Handed(p) ==
    handles' = [g \in 1..Len(heap') |->
                   IF g <= Len(heap) THEN handles[g] + (IF g = p THEN 1 ELSE 0)
                   ELSE IF g = p THEN 1 ELSE 0]

FrameRender ==
    /\ \E grammar \in Callable, full \in BOOLEAN, wrap \in BOOLEAN :
          /\ ret' = [value |-> grammaticaGrammarRender(TreeAt(heap, grammar), full, wrap),
                     rewritten |-> {}]
          /\ Called("render", grammar, 0)
    /\ pc' = "returned"
    /\ UNCHANGED <<heap, handles, arrays>>

FrameEquals ==
    /\ \E grammar \in Callable, other \in Callable :
          /\ ret' = [value |-> grammaticaGrammarEquals(TreeAt(heap, grammar),
                                                       TreeAt(heap, other), TRUE,
                                                       grammar = other),
                     rewritten |-> {}]
          /\ Called("equals", grammar, other)
    /\ pc' = "returned"
    /\ UNCHANGED <<heap, handles, arrays>>

FrameCopy ==
    /\ \E grammar \in Callable :
          LET node == heap[grammar].node
              copy == IF node.type = "STRING"
                      THEN grammaticaStringCreate(node.value \o <<ASCII.nul>>)
                      ELSE IF node.type = "CHAR_RANGE"
                      THEN grammaticaCharRangeCreate(node.ranges, node.negate,
                                                     Qsort(node.ranges))
                      ELSE IF node.type = "DERIVATION_RULE"
                      THEN GrammaticaDerivationRule(node.symbol, node.value)
                      ELSE Create(node.type, node.subexprs, node.quantifier)
          IN /\ heap' = Allocated(heap, Kids(node), copy)
             /\ ret' = [value |-> Len(heap'), rewritten |-> {}]
             /\ Called("copy", grammar, 0)
    /\ Handed(ret'.value)
    /\ pc' = "returned"
    /\ UNCHANGED arrays

\* releasing or referencing a freed node is undefined: the call returns on
\* the memory as it is, or the process is stopped
FrameSimplify ==
    /\ \E grammar \in Callable, ub \in UBOutcomes :
          LET result == grammaticaGrammarSimplifyAt([heap |-> heap, rewritten |-> {}],
                                                    grammar)
          IN /\ heap' = result.s.heap
             /\ ret' = [value |-> result.p, rewritten |-> result.s.rewritten]
             /\ Called("simplify", grammar, 0)
             /\ pc' = IF StaleUse(heap') /\ ub = "crash" THEN "crashed" ELSE "returned"
    /\ Handed(ret'.value)
    /\ UNCHANGED arrays

NextFrame ==
    \/ FrameRender
    \/ FrameEquals
    \/ FrameCopy
    \/ FrameSimplify

SpecFrame == InitFrame /\ [][NextFrame]_vars

\* the addresses reachable from g, g included
RECURSIVE ReachableFrom(_, _)
ReachableFrom(h, g) ==
    {g} \cup UNION {ReachableFrom(h, Kids(h[g].node)[i]) : i \in 1..Len(Kids(h[g].node))}

\* C27: after Render, Simplify, Equals or Copy returns, every node reachable
\* from an argument has the payload, the child list in the same order and
\* the quantifier it had before the call and has not been freed, and the
\* only arrays Simplify rewrote in place are arrays it created in that call.
C27_InputUnmodified ==
    pc = "returned" =>
        /\ \A g \in ReachableFrom(arg.before, arg.grammar)
                      \cup (IF arg.other = 0 THEN {}
                            ELSE ReachableFrom(arg.before, arg.other)) :
              /\ heap[g].node = arg.before[g].node
              /\ heap[g].live
        /\ ret.rewritten \subseteq {0}

\* Simplify merged two literals in an array of its own and returned a new
\* Sequence, leaving the argument and its literals as they were
C27_Witness ==
    /\ pc = "returned"
    /\ arg.op = "simplify"
    /\ 0 \in ret.rewritten
    /\ ret.value > Len(arg.before)
    /\ heap[arg.grammar].node.type = "GRAMMAR"
    /\ Len(heap[arg.grammar].node.subexprs) = 2
    /\ \A i \in 1..2 : heap[heap[arg.grammar].node.subexprs[i]].node.type = "STRING"
    /\ heap[ret.value].node.type = "GRAMMAR"
    /\ Len(heap[ret.value].node.subexprs) = 1
    /\ ~StaleUse(heap)

(***************************************************************************)
(* SpecThreads: threads calling grammaticaGrammarRef and                   *)
(* grammaticaGrammarUnref on one node.  heap[1] is the node, handles[t]    *)
(* the references thread t holds, pc[t] where thread t is and arg[t] the   *)
(* old_count its pending Unref read.  atomic_fetch_add and                 *)
(* atomic_fetch_sub are single steps; the test of old_count and the call   *)
(* of the destroy function are a later step of the same thread.            *)
(***************************************************************************)
MaxThreads == 3

Threads == 1..MaxThreads

\* atomic_fetch_sub returning the count after the subtraction
atomic_sub_fetch(h, grammar) ==
    [h |-> [h EXCEPT ![grammar].refCount = @ - 1], old_count |-> h[grammar].refCount - 1]

\* the count is decremented and the value before is returned, in one step
atomic_fetch_sub(h, grammar) ==
    [h |-> [h EXCEPT ![grammar].refCount = @ - 1], old_count |-> h[grammar].refCount]

atomic_fetch_add(h, grammar) == [h EXCEPT ![grammar].refCount = @ + 1]

\* the node after construction and after the threads were handed their
\* references, each by a grammaticaGrammarRef of one that held one
InitThreads ==
    /\ handles \in [Threads -> 0..MaxHandles]
    /\ Sum(handles, Threads) >= 1
    /\ heap = <<[refCount |-> Sum(handles, Threads), kids |-> <<>>, live |-> TRUE,
                 destroyed |-> 0]>>
    /\ pc = [t \in Threads |-> "idle"]
    /\ arg = [t \in Threads |-> 0]
    /\ ret = NULL
    /\ arrays = <<>>

ThreadRef(t) ==
    /\ pc[t] = "idle"
    /\ handles[t] >= 1
    /\ handles[t] < MaxHandles
    /\ heap' = atomic_fetch_add(heap, 1)
    /\ handles' = [handles EXCEPT ![t] = @ + 1]
    /\ UNCHANGED <<arg, ret, pc, arrays>>

\* int old_count = atomic_fetch_sub(&grammar->refCount, 1)
ThreadUnref(t) ==
    /\ pc[t] = "idle"
    /\ handles[t] >= 1
    /\ LET sub == atomic_fetch_sub(heap, 1)
       IN /\ heap' = sub.h
          /\ arg' = [arg EXCEPT ![t] = sub.old_count]
    /\ handles' = [handles EXCEPT ![t] = @ - 1]
    /\ pc' = [pc EXCEPT ![t] = "old_count"]
    /\ UNCHANGED <<ret, arrays>>

\* if (old_count == 1) grammar->vtable->destroy(grammar)
ThreadDestroy(t) ==
    /\ pc[t] = "old_count"
    /\ heap' = IF arg[t] = 1
               THEN [heap EXCEPT ![1].live = FALSE, ![1].destroyed = @ + 1]
               ELSE heap
    /\ pc' = [pc EXCEPT ![t] = "idle"]
    /\ arg' = [arg EXCEPT ![t] = 0]
    /\ UNCHANGED <<ret, handles, arrays>>

NextThreads ==
    \E t \in Threads :
        \/ ThreadRef(t)
        \/ ThreadUnref(t)
        \/ ThreadDestroy(t)

SpecThreads == InitThreads /\ [][NextThreads]_vars

\* C28: with threads concurrently calling grammaticaGrammarRef and
\* grammaticaGrammarUnref on one node, each releasing only references it
\* holds, the count is the number of references held (no increment or
\* decrement is lost); the destroy function runs at most once, only in the
\* Unref that read old_count 1, which is one thread's and finds the count at
\* zero; it has run once all references are released and every Unref has
\* returned; and a thread that holds a reference finds the node alive.
C28_ConcurrentRefUnref ==
    LET last == {t \in Threads : pc[t] = "old_count" /\ arg[t] = 1}
    IN /\ heap[1].refCount = Sum(handles, Threads)
       /\ heap[1].destroyed <= 1
       /\ Cardinality(last) <= 1
       /\ (last # {}) => (heap[1].refCount = 0 /\ heap[1].destroyed = 0)
       /\ (heap[1].destroyed = 1) => (heap[1].refCount = 0 /\ last = {})
       /\ (heap[1].refCount = 0 /\ \A t \in Threads : pc[t] = "idle")
             => (heap[1].destroyed = 1)
       /\ \A t \in Threads : (handles[t] > 0) => heap[1].live

\* three threads released their references, two of them with their Unref
\* still between the decrement and the test of old_count, and the third,
\* which read old_count 1, has destroyed the node
C28_Witness ==
    /\ heap[1].destroyed = 1
    /\ Cardinality({t \in Threads : pc[t] = "old_count"}) >= 2
    /\ \A t \in Threads : handles[t] = 0

\* C29: grammaticaMergeAdjacentStrings, run by Sequence simplification on the
\* simplified subexprs, releases one reference on each item it removes from
\* the array, every one of them a StringLiteral, and none on an item it
\* leaves in the array.
C29_MergeReleasesMergedOnly ==
    (/\ pc = "simplified"
     /\ arg.x.type = "GRAMMAR"
     /\ ~Crashed(Survivors(arg.x)))
        => LET m == grammaticaMergeAdjacentStrings(Survivors(arg.x))
               left == {m.items[i].obj : i \in 1..Len(m.items)}
           IN \A k \in DOMAIN m.unrefs :
                 IF k \in left THEN m.unrefs[k] = 0
                 ELSE m.unrefs[k] = 1 /\ Survivors(arg.x)[k].type = "STRING"

\* C30: the test next.start <= running.end + 1 of merge_ranges acts as if
\* computed without wrap-around: for an input with an entry ending at
\* UINT32_MAX no stored entry follows one that ends at UINT32_MAX, and the
\* stored list is canonical.
C30_MergeAtTopOfDomain ==
    (/\ pc = "created"
     /\ ret.node # NULL
     /\ ~EndsBelowMax(arg.ranges))
        => /\ \A i \in 1..(Len(ret.node.ranges) - 1) : ret.node.ranges[i].end # UINT32_MAX
           /\ Canonical(ret.node.ranges)

====
